---- MODULE Spec2Model ----
(***************************************************************************)
(* EcoBot, the button-driven chatbot page of app_streamlit.py (the         *)
(* `elif menu == "Chatbot":` block).  A Streamlit script run executes the  *)
(* block from top to bottom: it initialises the session state, shows the   *)
(* transcript, and runs the branch of the if/elif router selected by       *)
(* st.session_state.chat_stage.  A button returns True only in the run     *)
(* its click triggered; handle_rerun sets the stage, appends the user      *)
(* message and calls st.rerun(), which aborts the run and starts another.  *)
(***************************************************************************)
EXTENDS Integers, Sequences, FiniteSets, TLC

\* ------------------------------------------------------------------ bounds
\* Button clicks per session.
MaxClicks == 4
\* Script runs per session that no click and no st.rerun() caused (the first
\* visit of the page, and coming back to it from another page of the menu).
MaxVisits == 2
\* With two sessions open: the clicks of both together, and each one's visits.
MaxClicksTwo == 3
MaxVisitsTwo == 1

\* ----------------------------------------------------------- static data
Sessions == {1, 2}

\* Keys of VARIABLE_DESCRIPTIONS.
VARIABLE_KEYS ==
  {"pm2_5", "temperatura", "precipitacion", "humedad", "viento_velocidad",
   "viento_direccion", "presion", "ica"}

\* VARIABLE_DESCRIPTIONS: key -> explanation (texts abbreviated to their head).
VARIABLE_DESCRIPTIONS ==
  [k \in VARIABLE_KEYS |->
     CASE k = "pm2_5" -> "**PM2.5 (ug/m3)**: ..."
       [] k = "temperatura" -> "**Temperatura (C)**: ..."
       [] k = "precipitacion" -> "**Precipitacion (mm)**: ..."
       [] k = "humedad" -> "**Humedad (%)**: ..."
       [] k = "viento_velocidad" -> "**Velocidad Viento (km/h)**: ..."
       [] k = "viento_direccion" -> "**Direccion Viento (Rosa)**: ..."
       [] k = "presion" -> "**Presion Barometrica (hPa)**: ..."
       [] k = "ica" -> "**ICA (Indice de Calidad del Aire)**: ..."]

\* Keys of CHART_DESCRIPTIONS.
CHART_KEYS ==
  {"grafico_linea", "grafico_area", "mapa_calor", "rosa_vientos", "bandas_ica"}

\* CHART_DESCRIPTIONS: key -> title and description (abbreviated).
CHART_DESCRIPTIONS ==
  [k \in CHART_KEYS |->
     CASE k = "grafico_linea" ->
            [title |-> "Grafico de Linea (Series de Tiempo)",
             description |-> "Este grafico ... es perfecto para ver tendencias ..."]
       [] k = "grafico_area" ->
            [title |-> "Grafico de Area (Precipitacion)",
             description |-> "Este grafico se usa para la Precipitacion ..."]
       [] k = "mapa_calor" ->
            [title |-> "Mapa de Calor (Humedad)",
             description |-> "Este grafico es excelente para encontrar patrones diarios ..."]
       [] k = "rosa_vientos" ->
            [title |-> "Rosa de Vientos (Direccion del Viento)",
             description |-> "Este es un grafico polar especial para entender el viento ..."]
       [] k = "bandas_ica" ->
            [title |-> "Grafico de Bandas (ICA)",
             description |-> "Este grafico ... nivel de riesgo ..."]]

\* Mutant of VARIABLE_INDEX_MAP: one key is not a key of VARIABLE_DESCRIPTIONS.
VARIABLE_INDEX_MAP_typo ==
  <<"pm2_5", "temperatura", "precipitacion", "humedad", "viento_velocidad",
    "viento_dir", "presion", "ica">>

\* VARIABLE_INDEX_MAP: 1..8 -> variable key.
VARIABLE_INDEX_MAP ==
  <<"pm2_5", "temperatura", "precipitacion", "humedad", "viento_velocidad",
    "viento_direccion", "presion", "ica">>

\* variable_friendly_map: key -> button label (viento_direccion has none).
variable_friendly_map ==
  [k \in VARIABLE_KEYS \ {"viento_direccion"} |->
     CASE k = "temperatura" -> "Temperatura"
       [] k = "humedad" -> "Humedad Relativa"
       [] k = "precipitacion" -> "Precipitacion"
       [] k = "pm2_5" -> "PM2.5"
       [] k = "viento_velocidad" -> "Velocidad del Viento"
       [] k = "presion" -> "Presion Barometrica"
       [] k = "ica" -> "Indice de Calidad del Aire (ICA)"]

\* variable_friendly_map.get(key, key)
FriendlyLabel(key) ==
  IF key \in DOMAIN variable_friendly_map THEN variable_friendly_map[key] ELSE key

\* ------------------------------------------------------ the knowledge base
\* Statistics are kept as integers: hundredths (31.17 is 3117).  Coordinates
\* are kept in units of 10^-7 degrees.

\* The keys of STATION_STATS_DATA, in the order the dict literal gives them.
STATION_KEYS ==
  << "Barranca-RacimoOrquidea",
     "Halley UIS",
     "RACIMO-SOCORROCONS4",
     "RACiMo BarbosaAir2.1",
     "RACiMo BarbosaCONS2",
     "RACiMo BarrancaAIR1.1",
     "RACiMo BucGuatiAIR5.1",
     "RACiMo BucSanAIR5",
     "RACiMo MalagaAIR3.1",
     "RACiMo MalagaCONS3",
     "RACiMo SocConvAir4.1" >>

\* The characters of each station name.
STATION_NAME_CHARS ==
  ("Barranca-RacimoOrquidea" :> <<"B", "a", "r", "r", "a", "n", "c", "a", "-", "R", "a", "c", "i", "m", "o", "O", "r", "q", "u", "i", "d", "e", "a">>)
  @@ ("Halley UIS" :> <<"H", "a", "l", "l", "e", "y", " ", "U", "I", "S">>)
  @@ ("RACIMO-SOCORROCONS4" :> <<"R", "A", "C", "I", "M", "O", "-", "S", "O", "C", "O", "R", "R", "O", "C", "O", "N", "S", "4">>)
  @@ ("RACiMo BarbosaAir2.1" :> <<"R", "A", "C", "i", "M", "o", " ", "B", "a", "r", "b", "o", "s", "a", "A", "i", "r", "2", ".", "1">>)
  @@ ("RACiMo BarbosaCONS2" :> <<"R", "A", "C", "i", "M", "o", " ", "B", "a", "r", "b", "o", "s", "a", "C", "O", "N", "S", "2">>)
  @@ ("RACiMo BarrancaAIR1.1" :> <<"R", "A", "C", "i", "M", "o", " ", "B", "a", "r", "r", "a", "n", "c", "a", "A", "I", "R", "1", ".", "1">>)
  @@ ("RACiMo BucGuatiAIR5.1" :> <<"R", "A", "C", "i", "M", "o", " ", "B", "u", "c", "G", "u", "a", "t", "i", "A", "I", "R", "5", ".", "1">>)
  @@ ("RACiMo BucSanAIR5" :> <<"R", "A", "C", "i", "M", "o", " ", "B", "u", "c", "S", "a", "n", "A", "I", "R", "5">>)
  @@ ("RACiMo MalagaAIR3.1" :> <<"R", "A", "C", "i", "M", "o", " ", "M", "a", "l", "a", "g", "a", "A", "I", "R", "3", ".", "1">>)
  @@ ("RACiMo MalagaCONS3" :> <<"R", "A", "C", "i", "M", "o", " ", "M", "a", "l", "a", "g", "a", "C", "O", "N", "S", "3">>)
  @@ ("RACiMo SocConvAir4.1" :> <<"R", "A", "C", "i", "M", "o", " ", "S", "o", "c", "C", "o", "n", "v", "A", "i", "r", "4", ".", "1">>)

\* ord(c) of the characters of the station names.
Ord ==
  (" " :> 32) @@ ("-" :> 45) @@ ("." :> 46) @@ ("1" :> 49) @@ ("2" :> 50) @@ ("3" :> 51)
  @@ ("4" :> 52) @@ ("5" :> 53) @@ ("A" :> 65) @@ ("B" :> 66) @@ ("C" :> 67) @@ ("G" :> 71)
  @@ ("H" :> 72) @@ ("I" :> 73) @@ ("M" :> 77) @@ ("N" :> 78) @@ ("O" :> 79) @@ ("R" :> 82)
  @@ ("S" :> 83) @@ ("U" :> 85) @@ ("a" :> 97) @@ ("b" :> 98) @@ ("c" :> 99) @@ ("d" :> 100)
  @@ ("e" :> 101) @@ ("g" :> 103) @@ ("i" :> 105) @@ ("l" :> 108) @@ ("m" :> 109) @@ ("n" :> 110)
  @@ ("o" :> 111) @@ ("q" :> 113) @@ ("r" :> 114) @@ ("s" :> 115) @@ ("t" :> 116) @@ ("u" :> 117)
  @@ ("v" :> 118) @@ ("y" :> 121)

\* STATION_STATS_DATA["Barranca-RacimoOrquidea"]
STATION_01 ==
  [latitud |-> 70688420, longitud |-> -738513800,
   stats |->
     ("temperatura" :> [max |-> 3667, min |-> 1744, mean |-> 2787, unit |-> "°C"])
     @@ ("humedad" :> [max |-> 9540, min |-> 4530, mean |-> 7754, unit |-> "%"])
     @@ ("precipitacion" :> [max |-> 3060, sum |-> 65560, mean |-> 12, unit |-> "mm"])
     @@ ("pm2_5" :> [max |-> 5447, min |-> 0, mean |-> 913, unit |-> "µg/m³"])
     @@ ("ica" :> [max |-> 12849, min |-> 0, mean |-> 2825, unit |-> ""])
     @@ ("viento_velocidad" :> [max |-> 1635, min |-> 0, mean |-> 338, unit |-> "km/h"])
     @@ ("presion" :> [max |-> 101957, min |-> 100362, mean |-> 101060, unit |-> "hPa"])]

\* Mutant of STATION_02: two digits of the temperature maximum are swapped.
STATION_02_digits ==
  [latitud |-> 71390800, longitud |-> -731213700,
   stats |->
     ("temperatura" :> [max |-> 3171, min |-> 2228, mean |-> 2672, unit |-> "°C"])
     @@ ("humedad" :> [max |-> 9600, min |-> 4500, mean |-> 7936, unit |-> "%"])
     @@ ("precipitacion" :> [max |-> 80, sum |-> 10860, mean |-> 2, unit |-> "mm"])
     @@ ("pm2_5" :> [max |-> 243, min |-> 145, mean |-> 194, unit |-> "µg/m³"])
     @@ ("ica" :> [max |-> 789, min |-> 471, mean |-> 630, unit |-> ""])
     @@ ("viento_velocidad" :> [max |-> 1609, min |-> 0, mean |-> 196, unit |-> "km/h"])
     @@ ("presion" :> [max |-> 101649, min |-> 100342, mean |-> 101117, unit |-> "hPa"])]

\* STATION_STATS_DATA["Halley UIS"]
STATION_02 ==
  [latitud |-> 71390800, longitud |-> -731213700,
   stats |->
     ("temperatura" :> [max |-> 3117, min |-> 2228, mean |-> 2672, unit |-> "°C"])
     @@ ("humedad" :> [max |-> 9600, min |-> 4500, mean |-> 7936, unit |-> "%"])
     @@ ("precipitacion" :> [max |-> 80, sum |-> 10860, mean |-> 2, unit |-> "mm"])
     @@ ("pm2_5" :> [max |-> 243, min |-> 145, mean |-> 194, unit |-> "µg/m³"])
     @@ ("ica" :> [max |-> 789, min |-> 471, mean |-> 630, unit |-> ""])
     @@ ("viento_velocidad" :> [max |-> 1609, min |-> 0, mean |-> 196, unit |-> "km/h"])
     @@ ("presion" :> [max |-> 101649, min |-> 100342, mean |-> 101117, unit |-> "hPa"])]

\* STATION_STATS_DATA["RACIMO-SOCORROCONS4"]
STATION_03 ==
  [latitud |-> 64612520, longitud |-> -732575900,
   stats |->
     ("temperatura" :> [max |-> 3078, min |-> 1572, mean |-> 2159, unit |-> "°C"])
     @@ ("humedad" :> [max |-> 9670, min |-> 3650, mean |-> 8104, unit |-> "%"])
     @@ ("precipitacion" :> [max |-> 1200, sum |-> 28120, mean |-> 5, unit |-> "mm"])
     @@ ("pm2_5" :> [max |-> 32242, min |-> 0, mean |-> 256, unit |-> "µg/m³"])
     @@ ("ica" :> [max |-> 37227, min |-> 0, mean |-> 816, unit |-> ""])
     @@ ("viento_velocidad" :> [max |-> 1159, min |-> 0, mean |-> 323, unit |-> "km/h"])
     @@ ("presion" :> [max |-> 102303, min |-> 100952, mean |-> 101749, unit |-> "hPa"])]

\* STATION_STATS_DATA["RACiMo BarbosaAir2.1"]
STATION_04 ==
  [latitud |-> 59290100, longitud |-> -736154700,
   stats |->
     ("temperatura" :> [max |-> 3178, min |-> 1589, mean |-> 2394, unit |-> "°C"])
     @@ ("humedad" :> [max |-> 8200, min |-> 2920, mean |-> 6188, unit |-> "%"])
     @@ ("precipitacion" :> [max |-> 0, sum |-> 0, mean |-> 0, unit |-> "mm"])
     @@ ("pm2_5" :> [max |-> 30555, min |-> 0, mean |-> 1321, unit |-> "µg/m³"])
     @@ ("ica" :> [max |-> 35556, min |-> 0, mean |-> 3633, unit |-> ""])
     @@ ("viento_velocidad" :> [max |-> 647, min |-> 8, mean |-> 328, unit |-> "km/h"])
     @@ ("presion" :> [max |-> 104999, min |-> 101628, mean |-> 103537, unit |-> "hPa"])]

\* STATION_STATS_DATA["RACiMo BarbosaCONS2"]
STATION_05 ==
  [latitud |-> 59493940, longitud |-> -736056300,
   stats |->
     ("temperatura" :> [max |-> 3006, min |-> 1272, mean |-> 2007, unit |-> "°C"])
     @@ ("humedad" :> [max |-> 9730, min |-> 3160, mean |-> 8028, unit |-> "%"])
     @@ ("precipitacion" :> [max |-> 980, sum |-> 38580, mean |-> 6, unit |-> "mm"])
     @@ ("pm2_5" :> [max |-> 34967, min |-> 0, mean |-> 568, unit |-> "µg/m³"])
     @@ ("ica" :> [max |-> 45116, min |-> 0, mean |-> 1643, unit |-> ""])
     @@ ("viento_velocidad" :> [max |-> 1714, min |-> 0, mean |-> 281, unit |-> "km/h"])
     @@ ("presion" :> [max |-> 102526, min |-> 101348, mean |-> 102040, unit |-> "hPa"])]

\* STATION_STATS_DATA["RACiMo BarrancaAIR1.1"]
STATION_06 ==
  [latitud |-> 70778140, longitud |-> -738582900,
   stats |->
     ("temperatura" :> [max |-> 3828, min |-> 2350, mean |-> 3036, unit |-> "°C"])
     @@ ("humedad" :> [max |-> 9650, min |-> 4230, mean |-> 6735, unit |-> "%"])
     @@ ("precipitacion" :> [max |-> 0, sum |-> 0, mean |-> 0, unit |-> "mm"])
     @@ ("pm2_5" :> [max |-> 35739, min |-> 0, mean |-> 1130, unit |-> "µg/m³"])
     @@ ("ica" :> [max |-> 40205, min |-> 0, mean |-> 3347, unit |-> ""])
     @@ ("viento_velocidad" :> [max |-> 859, min |-> 764, mean |-> 812, unit |-> "km/h"])
     @@ ("presion" :> [max |-> 102430, min |-> 101846, mean |-> 102138, unit |-> "hPa"])]

\* STATION_STATS_DATA["RACiMo BucGuatiAIR5.1"]
STATION_07 ==
  [latitud |-> 69944490, longitud |-> -730660860,
   stats |->
     ("temperatura" :> [max |-> 2811, min |-> 1900, mean |-> 2343, unit |-> "°C"])
     @@ ("humedad" :> [max |-> 9280, min |-> 5200, mean |-> 7698, unit |-> "%"])
     @@ ("precipitacion" :> [max |-> 0, sum |-> 0, mean |-> 0, unit |-> "mm"])
     @@ ("pm2_5" :> [max |-> 12850, min |-> 0, mean |-> 633, unit |-> "µg/m³"])
     @@ ("ica" :> [max |-> 18736, min |-> 0, mean |-> 2012, unit |-> ""])
     @@ ("viento_velocidad" :> [max |-> 764, min |-> 548, mean |-> 656, unit |-> "km/h"])
     @@ ("presion" :> [max |-> 103762, min |-> 102430, mean |-> 103096, unit |-> "hPa"])]

\* STATION_STATS_DATA["RACiMo BucSanAIR5"]
STATION_08 ==
  [latitud |-> 71386485, longitud |-> -731221850,
   stats |->
     ("temperatura" :> [max |-> 2922, min |-> 2194, mean |-> 2538, unit |-> "°C"])
     @@ ("humedad" :> [max |-> 8230, min |-> 4490, mean |-> 6868, unit |-> "%"])
     @@ ("precipitacion" :> [max |-> 0, sum |-> 0, mean |-> 0, unit |-> "mm"])
     @@ ("pm2_5" :> [max |-> 6234, min |-> 0, mean |-> 729, unit |-> "µg/m³"])
     @@ ("ica" :> [max |-> 14397, min |-> 0, mean |-> 2285, unit |-> ""])
     @@ ("viento_velocidad" :> [max |-> 548, min |-> 248, mean |-> 398, unit |-> "km/h"])
     @@ ("presion" :> [max |-> 104999, min |-> 103763, mean |-> 104482, unit |-> "hPa"])]

\* STATION_STATS_DATA["RACiMo MalagaAIR3.1"]
STATION_09 ==
  [latitud |-> 66980550, longitud |-> -727354200,
   stats |->
     ("temperatura" :> [max |-> 2689, min |-> 1183, mean |-> 1889, unit |-> "°C"])
     @@ ("humedad" :> [max |-> 10000, min |-> 3320, mean |-> 7016, unit |-> "%"])
     @@ ("precipitacion" :> [max |-> 0, sum |-> 0, mean |-> 0, unit |-> "mm"])
     @@ ("pm2_5" :> [max |-> 2454, min |-> 0, mean |-> 269, unit |-> "µg/m³"])
     @@ ("ica" :> [max |-> 6879, min |-> 0, mean |-> 874, unit |-> ""])
     @@ ("viento_velocidad" :> [max |-> 248, min |-> 0, mean |-> 124, unit |-> "km/h"])
     @@ ("presion" :> [max |-> 104376, min |-> 102801, mean |-> 103588, unit |-> "hPa"])]

\* STATION_STATS_DATA["RACiMo MalagaCONS3"]
STATION_10 ==
  [latitud |-> 67008390, longitud |-> -727276150,
   stats |->
     ("temperatura" :> [max |-> 2844, min |-> 1217, mean |-> 1807, unit |-> "°C"])
     @@ ("humedad" :> [max |-> 9660, min |-> 3130, mean |-> 7570, unit |-> "%"])
     @@ ("precipitacion" :> [max |-> 1840, sum |-> 36640, mean |-> 7, unit |-> "mm"])
     @@ ("pm2_5" :> [max |-> 5824, min |-> 0, mean |-> 283, unit |-> "µg/m³"])
     @@ ("ica" :> [max |-> 13591, min |-> 0, mean |-> 913, unit |-> ""])
     @@ ("viento_velocidad" :> [max |-> 1345, min |-> 0, mean |-> 174, unit |-> "km/h"])
     @@ ("presion" :> [max |-> 102967, min |-> 101924, mean |-> 102487, unit |-> "hPa"])]

\* Mutant of STATION_11: the wind speed minimum and mean are swapped with a typo.
STATION_11_minmean ==
  [latitud |-> 64681354, longitud |-> -732567500,
   stats |->
     ("temperatura" :> [max |-> 3050, min |-> 1939, mean |-> 2450, unit |-> "°C"])
     @@ ("humedad" :> [max |-> 8370, min |-> 3470, mean |-> 6662, unit |-> "%"])
     @@ ("precipitacion" :> [max |-> 0, sum |-> 0, mean |-> 0, unit |-> "mm"])
     @@ ("pm2_5" :> [max |-> 8266, min |-> 0, mean |-> 453, unit |-> "µg/m³"])
     @@ ("ica" :> [max |-> 16090, min |-> 0, mean |-> 1434, unit |-> ""])
     @@ ("viento_velocidad" :> [max |-> 566, min |-> 656, mean |-> 566, unit |-> "km/h"])
     @@ ("presion" :> [max |-> 102343, min |-> 102343, mean |-> 102343, unit |-> "hPa"])]

\* Mutant of STATION_11: the pressure entry is missing and humidity has no mean.
STATION_11_missing ==
  [latitud |-> 64681354, longitud |-> -732567500,
   stats |->
     ("temperatura" :> [max |-> 3050, min |-> 1939, mean |-> 2450, unit |-> "°C"])
     @@ ("humedad" :> [max |-> 8370, min |-> 3470, unit |-> "%"])
     @@ ("precipitacion" :> [max |-> 0, sum |-> 0, mean |-> 0, unit |-> "mm"])
     @@ ("pm2_5" :> [max |-> 8266, min |-> 0, mean |-> 453, unit |-> "µg/m³"])
     @@ ("ica" :> [max |-> 16090, min |-> 0, mean |-> 1434, unit |-> ""])
     @@ ("viento_velocidad" :> [max |-> 566, min |-> 566, mean |-> 566, unit |-> "km/h"])]

\* STATION_STATS_DATA["RACiMo SocConvAir4.1"]
STATION_11 ==
  [latitud |-> 64681354, longitud |-> -732567500,
   stats |->
     ("temperatura" :> [max |-> 3050, min |-> 1939, mean |-> 2450, unit |-> "°C"])
     @@ ("humedad" :> [max |-> 8370, min |-> 3470, mean |-> 6662, unit |-> "%"])
     @@ ("precipitacion" :> [max |-> 0, sum |-> 0, mean |-> 0, unit |-> "mm"])
     @@ ("pm2_5" :> [max |-> 8266, min |-> 0, mean |-> 453, unit |-> "µg/m³"])
     @@ ("ica" :> [max |-> 16090, min |-> 0, mean |-> 1434, unit |-> ""])
     @@ ("viento_velocidad" :> [max |-> 566, min |-> 566, mean |-> 566, unit |-> "km/h"])
     @@ ("presion" :> [max |-> 102343, min |-> 102343, mean |-> 102343, unit |-> "hPa"])]

STATION_STATS_DATA ==
  ("Barranca-RacimoOrquidea" :> STATION_01)
  @@ ("Halley UIS" :> STATION_02)
  @@ ("RACIMO-SOCORROCONS4" :> STATION_03)
  @@ ("RACiMo BarbosaAir2.1" :> STATION_04)
  @@ ("RACiMo BarbosaCONS2" :> STATION_05)
  @@ ("RACiMo BarrancaAIR1.1" :> STATION_06)
  @@ ("RACiMo BucGuatiAIR5.1" :> STATION_07)
  @@ ("RACiMo BucSanAIR5" :> STATION_08)
  @@ ("RACiMo MalagaAIR3.1" :> STATION_09)
  @@ ("RACiMo MalagaCONS3" :> STATION_10)
  @@ ("RACiMo SocConvAir4.1" :> STATION_11)

\* The variable keys of a stats dict, in the order the literal gives them.
STATS_KEYS ==
  <<"temperatura", "humedad", "precipitacion", "pm2_5", "ica", "viento_velocidad", "presion">>

\* Mutant of number_word_map_stations: the table of a list of twelve.
number_word_map_stations_twelve ==
  ("primera" :> 1) @@ ("1ra" :> 1) @@ ("1" :> 1) @@ ("segunda" :> 2)
  @@ ("2da" :> 2) @@ ("2" :> 2) @@ ("tercera" :> 3) @@ ("3ra" :> 3)
  @@ ("3" :> 3) @@ ("cuarta" :> 4) @@ ("4ta" :> 4) @@ ("4" :> 4)
  @@ ("quinta" :> 5) @@ ("5ta" :> 5) @@ ("5" :> 5) @@ ("sexta" :> 6)
  @@ ("6ta" :> 6) @@ ("6" :> 6) @@ ("séptima" :> 7) @@ ("septima" :> 7)
  @@ ("7ma" :> 7) @@ ("7" :> 7) @@ ("octava" :> 8) @@ ("8va" :> 8)
  @@ ("8" :> 8) @@ ("novena" :> 9) @@ ("9na" :> 9) @@ ("9" :> 9)
  @@ ("décima" :> 10) @@ ("decima" :> 10) @@ ("10ma" :> 10) @@ ("10" :> 10)
  @@ ("onceava" :> 11) @@ ("11va" :> 11) @@ ("11" :> 11)
  @@ ("doceava" :> 12) @@ ("12va" :> 12) @@ ("12" :> 12)

\* number_word_map_stations: word -> 1-based index.
number_word_map_stations ==
  ("primera" :> 1) @@ ("1ra" :> 1) @@ ("1" :> 1) @@ ("segunda" :> 2)
  @@ ("2da" :> 2) @@ ("2" :> 2) @@ ("tercera" :> 3) @@ ("3ra" :> 3)
  @@ ("3" :> 3) @@ ("cuarta" :> 4) @@ ("4ta" :> 4) @@ ("4" :> 4)
  @@ ("quinta" :> 5) @@ ("5ta" :> 5) @@ ("5" :> 5) @@ ("sexta" :> 6)
  @@ ("6ta" :> 6) @@ ("6" :> 6) @@ ("séptima" :> 7) @@ ("septima" :> 7)
  @@ ("7ma" :> 7) @@ ("7" :> 7) @@ ("octava" :> 8) @@ ("8va" :> 8)
  @@ ("8" :> 8) @@ ("novena" :> 9) @@ ("9na" :> 9) @@ ("9" :> 9)
  @@ ("décima" :> 10) @@ ("decima" :> 10) @@ ("10ma" :> 10) @@ ("10" :> 10)
  @@ ("onceava" :> 11) @@ ("11va" :> 11) @@ ("11" :> 11)

\* Mutant of VAR_MAP_QUERY: a keyword that holds an earlier keyword.
VAR_MAP_QUERY_shadow ==
  << [keyword |-> <<"p", "m", "2", ".", "5">>, variable |-> "pm2_5"],
     [keyword |-> <<"p", "a", "r", "t", "í", "c", "u", "l", "a", "s">>, variable |-> "pm2_5"],
     [keyword |-> <<"c", "o", "n", "t", "a", "m", "i", "n", "a", "c", "i", "ó", "n">>, variable |-> "pm2_5"],
     [keyword |-> <<"t", "e", "m", "p", "e", "r", "a", "t", "u", "r", "a">>, variable |-> "temperatura"],
     [keyword |-> <<"t", "e", "m", "p">>, variable |-> "temperatura"],
     [keyword |-> <<"c", "a", "l", "o", "r">>, variable |-> "temperatura"],
     [keyword |-> <<"h", "u", "m", "e", "d", "a", "d">>, variable |-> "humedad"],
     [keyword |-> <<"p", "r", "e", "c", "i", "p", "i", "t", "a", "c", "i", "ó", "n">>, variable |-> "precipitacion"],
     [keyword |-> <<"l", "l", "u", "v", "i", "a">>, variable |-> "precipitacion"],
     [keyword |-> <<"v", "i", "e", "n", "t", "o">>, variable |-> "viento_velocidad"],
     [keyword |-> <<"v", "e", "l", "o", "c", "i", "d", "a", "d">>, variable |-> "viento_velocidad"],
     [keyword |-> <<"d", "i", "r", "e", "c", "c", "i", "ó", "n", " ", "d", "e", "l", " ", "v", "i", "e", "n", "t", "o">>,
      variable |-> "viento_direccion"],
     [keyword |-> <<"d", "i", "r", "e", "c", "c", "i", "o", "n">>, variable |-> "viento_direccion"],
     [keyword |-> <<"r", "o", "s", "a">>, variable |-> "viento_direccion"],
     [keyword |-> <<"p", "r", "e", "s", "i", "ó", "n">>, variable |-> "presion"],
     [keyword |-> <<"p", "r", "e", "s", "i", "o", "n">>, variable |-> "presion"],
     [keyword |-> <<"i", "c", "a">>, variable |-> "ica"],
     [keyword |-> <<"c", "a", "l", "i", "d", "a", "d", " ", "d", "e", "l", " ", "a", "i", "r", "e">>, variable |-> "ica"] >>

\* VAR_MAP_QUERY: keyword -> variable key, in the order the literal gives them;
\* a keyword is kept as its characters.
VAR_MAP_QUERY ==
  << [keyword |-> <<"p", "m", "2", ".", "5">>, variable |-> "pm2_5"],
     [keyword |-> <<"p", "a", "r", "t", "í", "c", "u", "l", "a", "s">>, variable |-> "pm2_5"],
     [keyword |-> <<"c", "o", "n", "t", "a", "m", "i", "n", "a", "c", "i", "ó", "n">>, variable |-> "pm2_5"],
     [keyword |-> <<"t", "e", "m", "p", "e", "r", "a", "t", "u", "r", "a">>, variable |-> "temperatura"],
     [keyword |-> <<"t", "e", "m", "p">>, variable |-> "temperatura"],
     [keyword |-> <<"c", "a", "l", "o", "r">>, variable |-> "temperatura"],
     [keyword |-> <<"h", "u", "m", "e", "d", "a", "d">>, variable |-> "humedad"],
     [keyword |-> <<"p", "r", "e", "c", "i", "p", "i", "t", "a", "c", "i", "ó", "n">>, variable |-> "precipitacion"],
     [keyword |-> <<"l", "l", "u", "v", "i", "a">>, variable |-> "precipitacion"],
     [keyword |-> <<"v", "i", "e", "n", "t", "o">>, variable |-> "viento_velocidad"],
     [keyword |-> <<"v", "e", "l", "o", "c", "i", "d", "a", "d">>, variable |-> "viento_velocidad"],
     [keyword |-> <<"d", "i", "r", "e", "c", "c", "i", "ó", "n">>, variable |-> "viento_direccion"],
     [keyword |-> <<"d", "i", "r", "e", "c", "c", "i", "o", "n">>, variable |-> "viento_direccion"],
     [keyword |-> <<"r", "o", "s", "a">>, variable |-> "viento_direccion"],
     [keyword |-> <<"p", "r", "e", "s", "i", "ó", "n">>, variable |-> "presion"],
     [keyword |-> <<"p", "r", "e", "s", "i", "o", "n">>, variable |-> "presion"],
     [keyword |-> <<"i", "c", "a">>, variable |-> "ica"],
     [keyword |-> <<"c", "a", "l", "i", "d", "a", "d", " ", "d", "e", "l", " ", "a", "i", "r", "e">>, variable |-> "ica"] >>


\* Python's str < str: by code point, a proper prefix first.
RECURSIVE LexLess(_, _)
LexLess(a, b) ==
  IF a = <<>> THEN b # <<>>
  ELSE IF b = <<>> THEN FALSE
  ELSE IF Ord[Head(a)] # Ord[Head(b)] THEN Ord[Head(a)] < Ord[Head(b)]
  ELSE LexLess(Tail(a), Tail(b))

\* x < y on station names.
NameLess(x, y) == LexLess(STATION_NAME_CHARS[x], STATION_NAME_CHARS[y])

\* x put into the ascending list `done`, after the elements not greater than it.
RECURSIVE InsertSorted(_, _)
InsertSorted(done, x) ==
  IF done = <<>> THEN <<x>>
  ELSE IF NameLess(x, Head(done)) THEN <<x>> \o done
  ELSE <<Head(done)>> \o InsertSorted(Tail(done), x)

\* sorted(names): ascending and stable.
RECURSIVE sorted(_)
sorted(names) ==
  IF names = <<>> THEN <<>>
  ELSE InsertSorted(sorted(SubSeq(names, 1, Len(names) - 1)), names[Len(names)])

\* unique_stations = sorted(list(STATION_STATS_DATA.keys()))
unique_stations == sorted(STATION_KEYS)

station_count == Len(unique_stations)

\* Mutant of station_index_items: the keys are enumerate's 0-based indexes.
station_index_items_zero ==
  [k \in 1..Len(unique_stations) |-> <<k - 1, unique_stations[k]>>]

\* The (key, value) items of station_index_map in insertion order:
\* (index + 1, station) for index, station in enumerate(unique_stations).
station_index_items ==
  [k \in 1..Len(unique_stations) |-> <<(k - 1) + 1, unique_stations[k]>>]

\* station_index_map: number -> name.
station_index_map ==
  [n \in {station_index_items[k][1] : k \in DOMAIN station_index_items} |->
     LET k == CHOOSE k \in DOMAIN station_index_items : station_index_items[k][1] = n
     IN  station_index_items[k][2]]

\* sep.join(lines)
RECURSIVE Join(_, _)
Join(lines, sep) ==
  IF lines = <<>> THEN ""
  ELSE IF Len(lines) = 1 THEN lines[1]
  ELSE lines[1] \o sep \o Join(Tail(lines), sep)

\* [f"{i}. {station}" for i, station in station_index_map.items()]
numbered_list_lines ==
  [k \in DOMAIN station_index_items |->
     ToString(station_index_items[k][1]) \o ". " \o station_index_items[k][2]]

numbered_list_str_stations == Join(numbered_list_lines, "\n")

\* The seed greeting.
Greeting ==
  [role |-> "assistant", content |-> "Hola! Soy EcoBot. En que te puedo ayudar hoy?"]

\* The fixed assistant texts (abbreviated).
response_nav == "Claro! Aqui tienes una guia rapida de la aplicacion: ..."
\* The f-string of response_est over the count and the numbered list.
response_est_text(count, list) ==
  "Actualmente monitoreamos **" \o ToString(count)
    \o " estaciones** de la red RACiMo en Santander.\n\n" \o list
    \o "\n\n---\nTe gustaria ver un resumen de las estadisticas (Max/Min/Media) de todas estas estaciones?"

response_est == response_est_text(station_count, numbered_list_str_stations)
response_racimo == "Todos nuestros datos provienen de ... RACiMo ..."
response_stats == "*(Se mostro el resumen estadistico)*"
prompt_graficos == "Perfecto! Estos son los tipos de graficos ..."
prompt_variables == "Genial! Estas son las 8 variables que analizamos ..."
prompt_stats == "Aqui tienes el resumen estadistico ..."

\* ------------------------------------------------- the script, as steps
\* One statement of a router branch.  op is one of
\*   "write"       show arg on the page (st.markdown, st.write, a chart)
\*   "append"      st.session_state.messages.append(assistant message arg)
\*   "button"      st.button(arg); if it returns True: handle_rerun(target)
\*   "set_stage"   st.session_state.chat_stage = target
\*   "needs_rerun" needs_rerun = True
Write(text) == [op |-> "write", arg |-> text, target |-> ""]
AppendAssistant(text) == [op |-> "append", arg |-> text, target |-> ""]
Button(label, option) == [op |-> "button", arg |-> label, target |-> option]
SetStage(tag) == [op |-> "set_stage", arg |-> "", target |-> tag]
NeedsRerun == [op |-> "needs_rerun", arg |-> "", target |-> ""]

BackToMenu == "<- Volver al menu"

\* Mutant of InicioBranch: the last topic button repeats the first one's tag.
InicioBranch_repeat ==
  << Write("---"),
     Button("Como navegar?", "navegacion"),
     Button("Entender Graficos", "graficos"),
     Button("Entender Variables", "variables"),
     Button("Info de Estaciones", "estaciones"),
     Button("Fuente de Datos", "navegacion") >>

InicioBranch ==
  << Write("---"),
     Button("Como navegar?", "navegacion"),
     Button("Entender Graficos", "graficos"),
     Button("Entender Variables", "variables"),
     Button("Info de Estaciones", "estaciones"),
     Button("Fuente de Datos", "racimo") >>

NavegacionBranch ==
  << Write(response_nav),
     AppendAssistant(response_nav),
     Button(BackToMenu, "inicio") >>

\* Mutant of GraficosBranch: a chart button's tag is misspelt.
GraficosBranch_typo ==
  << Write(prompt_graficos),
     Button("Grafico de Linea", "grafico_linea"),
     Button("Grafico de Area", "grafico_area"),
     Button("Mapa de Calor", "mapa_de_calor"),
     Button("Rosa de Vientos", "rosa_vientos"),
     Button("Bandas ICA", "bandas_ica"),
     Button(BackToMenu, "inicio") >>

GraficosBranch ==
  << Write(prompt_graficos),
     Button("Grafico de Linea", "grafico_linea"),
     Button("Grafico de Area", "grafico_area"),
     Button("Mapa de Calor", "mapa_calor"),
     Button("Rosa de Vientos", "rosa_vientos"),
     Button("Bandas ICA", "bandas_ica"),
     Button(BackToMenu, "inicio") >>

\* Mutant of VariablesBranch: the prompt is appended to the transcript too.
VariablesBranch_append ==
  << Write(prompt_variables), AppendAssistant(prompt_variables) >>
  \o [i \in 1..Len(VARIABLE_INDEX_MAP) |->
        Button(FriendlyLabel(VARIABLE_INDEX_MAP[i]), VARIABLE_INDEX_MAP[i])]
  \o << Button(BackToMenu, "inicio") >>

VariablesBranch ==
  << Write(prompt_variables) >>
  \o [i \in 1..Len(VARIABLE_INDEX_MAP) |->
        Button(FriendlyLabel(VARIABLE_INDEX_MAP[i]), VARIABLE_INDEX_MAP[i])]
  \o << Button(BackToMenu, "inicio") >>

\* Mutant of EstacionesBranch: the yes button carries a tag no branch matches.
EstacionesBranch_typo ==
  << Write(response_est),
     AppendAssistant(response_est),
     Button("Si, mostrar estadisticas", "stats_yes"),
     Button("No, gracias", "inicio"),
     Button(BackToMenu, "inicio") >>

\* Mutant of EstacionesBranch: "No, gracias" shows the statistics too.
EstacionesBranch_no ==
  << Write(response_est),
     AppendAssistant(response_est),
     Button("Si, mostrar estadisticas", "stats_si"),
     Button("No, gracias", "stats_si"),
     Button(BackToMenu, "inicio") >>

EstacionesBranch ==
  << Write(response_est),
     AppendAssistant(response_est),
     Button("Si, mostrar estadisticas", "stats_si"),
     Button("No, gracias", "inicio"),
     Button(BackToMenu, "inicio") >>

\* Mutant of RacimoBranch: the message is appended before the button.
RacimoBranch_early ==
  << Write(response_racimo),
     AppendAssistant(response_racimo),
     Button(BackToMenu, "inicio") >>

\* Mutant of RacimoBranch: the back button is missing.
RacimoBranch_nobutton ==
  << Write(response_racimo),
     AppendAssistant(response_racimo) >>

RacimoBranch ==
  << Write(response_racimo),
     Button(BackToMenu, "inicio"),
     AppendAssistant(response_racimo) >>

\* Mutant of StatsSiBranch: the summary is shown but no message is appended.
StatsSiBranch_noappend ==
  << Write(prompt_stats),
     Write("expander: STATION_STATS_DATA summary"),
     Button(BackToMenu, "inicio") >>

StatsSiBranch ==
  << Write(prompt_stats),
     Write("expander: STATION_STATS_DATA summary"),
     AppendAssistant(response_stats),
     Button(BackToMenu, "inicio") >>

\* Mutant of VariableDetailBranch: back goes to the root menu.
VariableDetailBranch_home(stage) ==
  << Write(VARIABLE_DESCRIPTIONS[stage]),
     Button("<- Volver a Variables", "inicio"),
     AppendAssistant(VARIABLE_DESCRIPTIONS[stage]) >>

VariableDetailBranch(stage) ==
  << Write(VARIABLE_DESCRIPTIONS[stage]),
     Button("<- Volver a Variables", "variables"),
     AppendAssistant(VARIABLE_DESCRIPTIONS[stage]) >>

\* f"{chart_data['title']}\n{chart_data['description']}"
ChartMessage(stage) ==
  CHART_DESCRIPTIONS[stage].title \o "\n" \o CHART_DESCRIPTIONS[stage].description

ChartDetailBranch(stage) ==
  << Write("### " \o CHART_DESCRIPTIONS[stage].title),
     Write("chart: " \o stage),
     Write(CHART_DESCRIPTIONS[stage].description),
     Button("<- Volver a Graficos", "graficos"),
     AppendAssistant(ChartMessage(stage)) >>

\* Mutant of FallbackBranch: the recovery is announced in the transcript.
FallbackBranch_message ==
  << AppendAssistant("Volvamos al inicio."), SetStage("inicio"), NeedsRerun >>

\* Mutant of FallbackBranch: the stage is left as it is.
FallbackBranch_stay == <<NeedsRerun>>

\* Mutant of FallbackBranch: the stage is reset but no rerun is asked for.
FallbackBranch_norerun ==
  << SetStage("inicio") >>

FallbackBranch ==
  << SetStage("inicio"), NeedsRerun >>

\* The if/elif chain on st.session_state.chat_stage: the branch taken (named
\* by its condition) and its statements.
Router(stage) ==
  IF stage = "inicio" THEN [branch |-> "inicio", steps |-> InicioBranch]
  ELSE IF stage = "navegacion" THEN [branch |-> "navegacion", steps |-> NavegacionBranch]
  ELSE IF stage = "graficos" THEN [branch |-> "graficos", steps |-> GraficosBranch]
  ELSE IF stage = "variables" THEN [branch |-> "variables", steps |-> VariablesBranch]
  ELSE IF stage = "estaciones" THEN [branch |-> "estaciones", steps |-> EstacionesBranch]
  ELSE IF stage = "racimo" THEN [branch |-> "racimo", steps |-> RacimoBranch]
  ELSE IF stage = "stats_si" THEN [branch |-> "stats_si", steps |-> StatsSiBranch]
  ELSE IF stage \in DOMAIN VARIABLE_DESCRIPTIONS
    THEN [branch |-> "in VARIABLE_DESCRIPTIONS", steps |-> VariableDetailBranch(stage)]
  ELSE IF stage \in DOMAIN CHART_DESCRIPTIONS
    THEN [branch |-> "in CHART_DESCRIPTIONS", steps |-> ChartDetailBranch(stage)]
  ELSE [branch |-> "else", steps |-> FallbackBranch]

\* ------------------------------------------------------------ the state
VARIABLES
  live,        \* the sessions that are open
  keys,        \* keys[s]: the keys present in session s's st.session_state
  chat_stage,  \* chat_stage[s]: st.session_state.chat_stage ("" while absent)
  messages,    \* messages[s]: st.session_state.messages (<<>> while absent)
  rerun,       \* rerun[s]: the last script run ended in st.rerun()
  page,        \* page[s]: what the last script run put on the page
  branch,      \* branch[s]: the router branch the last script run took
  runs,        \* runs[s]: script runs so far
  clicks,      \* clicks[s]: button clicks handled so far
  visits,      \* visits[s]: script runs no click and no rerun caused
  query,       \* the last lookup made in the knowledge base
  answer       \* what that lookup gave

vars ==
  <<live, keys, chat_stage, messages, rerun, page, branch, runs, clicks, visits,
    query, answer>>

\* No lookup was made.
NoQuery == [kind |-> "none"]
NoAnswer == [found |-> FALSE]

\* The click that triggers a script run: a button label, or NoClick.
NoClick == "<none>"

BlankPage == [transcript |-> <<>>, body |-> <<>>, buttons |-> <<>>]

\* Mutant of InitMessages: the transcript is seeded on every run.
InitMessages_always(ss) ==
  [ss EXCEPT !.keys = @ \cup {"messages"}, !.messages = <<Greeting>>]

\* Lines 1065-1072: each key is created only if it is absent.
InitChatStage(ss) ==
  IF "chat_stage" \notin ss.keys
    THEN [ss EXCEPT !.keys = @ \cup {"chat_stage"}, !.chat_stage = "inicio"]
    ELSE ss

\* Mutant of InitMessages: the transcript starts empty.
InitMessages_empty(ss) ==
  IF "messages" \notin ss.keys
    THEN [ss EXCEPT !.keys = @ \cup {"messages"}, !.messages = <<>>]
    ELSE ss

InitMessages(ss) ==
  IF "messages" \notin ss.keys
    THEN [ss EXCEPT !.keys = @ \cup {"messages"}, !.messages = <<Greeting>>]
    ELSE ss

Initialize(ss) == InitMessages(InitChatStage(ss))

\* Mutant of handle_option: the stage is set and no user message is appended.
handle_option_silent(r, option) == [r EXCEPT !.chat_stage = option]

\* Mutant of handle_option: the user message replaces the last message.
handle_option_overwrite(r, option) ==
  [r EXCEPT !.chat_stage = option,
            !.messages = [@ EXCEPT ![Len(@)] = [role |-> "user", content |-> option]]]

\* handle_option(option), on the state r of a script run.
handle_option(r, option) ==
  [r EXCEPT !.chat_stage = option,
            !.messages = Append(@, [role |-> "user", content |-> option])]

\* Mutant of handle_rerun: st.rerun() is left out and the run goes on.
handle_rerun_norerun(r, option) == handle_option(r, option)

\* handle_rerun(option): handle_option, then st.rerun() aborts the run.
handle_rerun(r, option) ==
  [handle_option(r, option) EXCEPT !.aborted = TRUE]

\* One statement of a branch, in a run triggered by `clicked`.
ExecStep(r, step, clicked) ==
  CASE step.op = "write" ->
         [r EXCEPT !.body = Append(@, step.arg)]
    [] step.op = "append" ->
         [r EXCEPT !.messages =
                      Append(@, [role |-> "assistant", content |-> step.arg])]
    [] step.op = "button" ->
         LET shown == [r EXCEPT !.buttons = Append(@, step.arg)]
         IN  IF step.arg = clicked THEN handle_rerun(shown, step.target)
             ELSE shown
    [] step.op = "set_stage" ->
         [r EXCEPT !.chat_stage = step.target]
    [] step.op = "needs_rerun" ->
         [r EXCEPT !.needs_rerun = TRUE]

\* The statements of a branch from the i-th on, until st.rerun() aborts the run.
RECURSIVE Exec(_, _, _, _)
Exec(steps, i, r, clicked) ==
  IF i > Len(steps) \/ r.aborted THEN r
  ELSE Exec(steps, i + 1, ExecStep(r, steps[i], clicked), clicked)

\* One script run of the Chatbot block on session state ss (lines 1065-1289):
\* initialise, show the transcript, run the router's branch, and st.rerun()
\* at the end if needs_rerun.
ScriptRun(ss, clicked) ==
  LET s0 == Initialize(ss)
      r0 == [keys |-> s0.keys, chat_stage |-> s0.chat_stage,
             messages |-> s0.messages, transcript |-> s0.messages,
             branch |-> Router(s0.chat_stage).branch,
             body |-> <<>>, buttons |-> <<>>,
             needs_rerun |-> FALSE, aborted |-> FALSE]
  IN  Exec(Router(s0.chat_stage).steps, 1, r0, clicked)

SessionState(s) ==
  [keys |-> keys[s], chat_stage |-> chat_stage[s], messages |-> messages[s]]

\* Mutant of Commit: chat_stage and messages are kept in one place for all
\* sessions instead of in each st.session_state.
Commit_global(s, r) ==
  /\ keys' = [keys EXCEPT ![s] = r.keys]
  /\ chat_stage' = [t \in Sessions |-> r.chat_stage]
  /\ messages' = [t \in Sessions |-> r.messages]
  /\ rerun' = [rerun EXCEPT ![s] = r.aborted \/ r.needs_rerun]
  /\ page' = [page EXCEPT ![s] = [transcript |-> r.transcript,
                                  body |-> r.body, buttons |-> r.buttons]]
  /\ branch' = [branch EXCEPT ![s] = r.branch]
  /\ runs' = [runs EXCEPT ![s] = @ + 1]

\* Session s's state after the script run r.
Commit(s, r) ==
  /\ keys' = [keys EXCEPT ![s] = r.keys]
  /\ chat_stage' = [chat_stage EXCEPT ![s] = r.chat_stage]
  /\ messages' = [messages EXCEPT ![s] = r.messages]
  /\ rerun' = [rerun EXCEPT ![s] = r.aborted \/ r.needs_rerun]
  /\ page' = [page EXCEPT ![s] = [transcript |-> r.transcript,
                                  body |-> r.body, buttons |-> r.buttons]]
  /\ branch' = [branch EXCEPT ![s] = r.branch]
  /\ runs' = [runs EXCEPT ![s] = @ + 1]

\* Session s may still visit the page, or click, within the bounds.
VisitRoom(s) ==
  IF Cardinality(live) > 1 THEN visits[s] < MaxVisitsTwo ELSE visits[s] < MaxVisits

ClickRoom(s) ==
  IF Cardinality(live) > 1 THEN clicks[1] + clicks[2] < MaxClicksTwo
  ELSE clicks[s] < MaxClicks

\* The labels of the buttons on session s's page.
Offered(s) == {page[s].buttons[i] : i \in 1..Len(page[s].buttons)}

\* ---------------------------------------------------------------- actions
\* A script run with no button clicked: the rerun st.rerun() asked for, the
\* first visit of the page, or a return to it from another page of the menu.
Render(s) ==
  /\ s \in live
  /\ rerun[s] \/ VisitRoom(s)
  /\ Commit(s, ScriptRun(SessionState(s), NoClick))
  /\ visits' = [visits EXCEPT ![s] = IF rerun[s] THEN @ ELSE @ + 1]
  /\ UNCHANGED <<live, clicks, query, answer>>

\* The user clicks a button of the page: the script run it triggers.
Click(s, label) ==
  /\ s \in live
  /\ ~rerun[s]
  /\ label \in Offered(s)
  /\ ClickRoom(s)
  /\ Commit(s, ScriptRun(SessionState(s), label))
  /\ clicks' = [clicks EXCEPT ![s] = @ + 1]
  /\ UNCHANGED <<live, visits, query, answer>>

Labels ==
  {"Como navegar?", "Entender Graficos", "Entender Variables",
   "Info de Estaciones", "Fuente de Datos", BackToMenu,
   "Grafico de Linea", "Grafico de Area", "Mapa de Calor", "Rosa de Vientos",
   "Bandas ICA", "Si, mostrar estadisticas", "No, gracias",
   "<- Volver a Variables", "<- Volver a Graficos"}
  \cup {FriendlyLabel(k) : k \in VARIABLE_KEYS}

Next ==
  \/ \E s \in Sessions : Render(s)
  \/ \E s \in Sessions, label \in Labels : Click(s, label)

\* ------------------------------------------- reads of the knowledge base
\* The chat sessions are left alone by a lookup.
SessionsUnchanged ==
  UNCHANGED <<live, keys, chat_stage, messages, rerun, page, branch, runs,
              clicks, visits>>

\* The keys the summary loop reads of a station's dict.
StationFieldsRead == {"latitud", "longitud", "stats"}

\* Mutant of FieldsRead: precipitacion is formatted like the other variables.
FieldsRead_min(variable) == {"unit", "max", "min", "mean"}

\* The keys the summary loop reads of a record: stats_dict['unit'], then
\* 'sum' and 'max' if var_key == 'precipitacion', else 'max', 'min', 'mean'.
FieldsRead(variable) ==
  IF variable = "precipitacion" THEN {"unit", "sum", "max"}
  ELSE {"unit", "max", "min", "mean"}

\* The summary loop takes a station: `for station_name, data in
\* STATION_STATS_DATA.items()`, data['latitud'], data['longitud'], data['stats'].
ReadStation(station) ==
  /\ station \in DOMAIN STATION_STATS_DATA
  /\ query' = [kind |-> "station", station |-> station]
  /\ answer' = [found |-> TRUE,
                fields |-> DOMAIN STATION_STATS_DATA[station],
                variables |-> DOMAIN STATION_STATS_DATA[station].stats,
                read |-> StationFieldsRead,
                raised |-> ~(StationFieldsRead \subseteq DOMAIN STATION_STATS_DATA[station])]
  /\ SessionsUnchanged

\* The summary loop takes a record: `for var_key, stats_dict in stats.items()`.
ReadRecord(station, variable) ==
  /\ station \in DOMAIN STATION_STATS_DATA
  /\ variable \in DOMAIN STATION_STATS_DATA[station].stats
  /\ query' = [kind |-> "record", station |-> station, variable |-> variable]
  /\ answer' = [found |-> TRUE, record |-> STATION_STATS_DATA[station].stats[variable],
                read |-> FieldsRead(variable),
                raised |-> ~(FieldsRead(variable)
                               \subseteq DOMAIN STATION_STATS_DATA[station].stats[variable])]
  /\ SessionsUnchanged

\* t occurs in text at offset i (0-based).
OccursAt(t, text, i) ==
  /\ i + Len(t) <= Len(text)
  /\ \A j \in 1..Len(t) : text[i + j] = t[j]

\* Python's `t in text` on strings.
IsSubstring(t, text) == \E i \in 0..Len(text) : OccursAt(t, text, i)

\* The station an ordinal word names: the word's index in the word table, then
\* the station of that index in station_index_map; a miss for any other word.
station_by_word(word) ==
  IF word \in DOMAIN number_word_map_stations
     /\ number_word_map_stations[word] \in DOMAIN station_index_map
    THEN [found |-> TRUE, index |-> number_word_map_stations[word],
          station |-> station_index_map[number_word_map_stations[word]]]
    ELSE [found |-> FALSE]

\* The variable a text names: the first entry of VAR_MAP_QUERY, in table order,
\* whose keyword occurs in the text.
variable_by_keyword(text) ==
  LET hits == {i \in DOMAIN VAR_MAP_QUERY : IsSubstring(VAR_MAP_QUERY[i].keyword, text)}
  IN  IF hits = {} THEN [found |-> FALSE]
      ELSE LET first == CHOOSE i \in hits : \A j \in hits : i <= j
           IN  [found |-> TRUE, entry |-> first,
                variable |-> VAR_MAP_QUERY[first].variable]

\* getStatistic(station, variable, statistic): the stored value and the
\* record's unit, or a miss.
getStatistic(station, variable, statistic) ==
  IF station \notin DOMAIN STATION_STATS_DATA THEN [found |-> FALSE]
  ELSE IF variable \notin DOMAIN STATION_STATS_DATA[station].stats THEN [found |-> FALSE]
  ELSE LET record == STATION_STATS_DATA[station].stats[variable]
       IN  IF statistic \notin DOMAIN record \ {"unit"} THEN [found |-> FALSE]
           ELSE [found |-> TRUE, value |-> record[statistic], unit |-> record.unit]

\* number_word_map_vars: ordinal word or numeral -> 1-based variable index.
number_word_map_vars ==
  ("primera" :> 1) @@ ("1ra" :> 1) @@ ("1" :> 1)
  @@ ("segunda" :> 2) @@ ("2da" :> 2) @@ ("2" :> 2)
  @@ ("tercera" :> 3) @@ ("3ra" :> 3) @@ ("3" :> 3)
  @@ ("cuarta" :> 4) @@ ("4ta" :> 4) @@ ("4" :> 4)
  @@ ("quinta" :> 5) @@ ("5ta" :> 5) @@ ("5" :> 5)
  @@ ("sexta" :> 6) @@ ("6ta" :> 6) @@ ("6" :> 6)
  @@ ("séptima" :> 7) @@ ("septima" :> 7) @@ ("7ma" :> 7)
  @@ ("7" :> 7) @@ ("octava" :> 8) @@ ("8va" :> 8)
  @@ ("8" :> 8)

\* The statistic keywords, in table order.
STAT_MAP_QUERY ==
  << [keyword |-> <<"m", "á", "x", "i", "m", "a">>, statistic |-> "max"],
     [keyword |-> <<"m", "a", "x", "i", "m", "a">>, statistic |-> "max"],
     [keyword |-> <<"m", "í", "n", "i", "m", "a">>, statistic |-> "min"],
     [keyword |-> <<"m", "i", "n", "i", "m", "a">>, statistic |-> "min"],
     [keyword |-> <<"m", "e", "d", "i", "a">>, statistic |-> "mean"],
     [keyword |-> <<"p", "r", "o", "m", "e", "d", "i", "o">>, statistic |-> "mean"],
     [keyword |-> <<"t", "o", "t", "a", "l">>, statistic |-> "sum"],
     [keyword |-> <<"s", "u", "m", "a", "t", "o", "r", "i", "a">>, statistic |-> "sum"] >>

\* The topic keywords, in table order.
TOPIC_MAP_QUERY ==
  << [keyword |-> <<"h", "o", "l", "a">>, topic |-> "saludo"],
     [keyword |-> <<"a", "d", "i", "ó", "s">>, topic |-> "despedida"],
     [keyword |-> <<"m", "a", "p", "a">>, topic |-> "mapa"],
     [keyword |-> <<"a", "n", "i", "m", "a", "c", "i", "ó", "n">>, topic |-> "animacion"],
     [keyword |-> <<"a", "n", "á", "l", "i", "s", "i", "s">>, topic |-> "analisis"],
     [keyword |-> <<"g", "r", "á", "f", "i", "c", "o">>, topic |-> "analisis"],
     [keyword |-> <<"g", "r", "a", "c", "i", "a", "s">>, topic |-> "gracias"] >>

\* The phrases that ask for a station's data, and for a variable's meaning.
StationTriggers == {<<"e", "s", "t", "a", "d", "í", "s", "t", "i", "c", "a", "s", " ", "d", "e">>,
                    <<"d", "a", "t", "o", "s", " ", "d", "e">>}
VariableTriggers == {<<"q", "u", "é", " ", "e", "s">>, <<"e", "x", "p", "l", "í", "c", "a", "m", "e">>}
StationWords == {<<"e", "s", "t", "a", "c", "i", "ó", "n">>, <<"s", "t", "a", "t", "i", "o", "n">>}
VariableWords == {<<"v", "a", "r", "i", "a", "b", "l", "e">>}

\* Some phrase of the set occurs in the text.
HasPhrase(phrases, text) == \E t \in phrases : IsSubstring(t, text)

\* The first entry of a keyword table, in table order, whose keyword occurs in
\* the text; 0 when none does.
FirstKeyword(table, text) ==
  LET hits == {i \in DOMAIN table : IsSubstring(table[i].keyword, text)}
  IN  IF hits = {} THEN 0 ELSE CHOOSE i \in hits : \A j \in hits : i <= j

\* Step 1: the first station, in sorted order, whose full name occurs in the
\* text (names matched as written).
station_by_name(text) ==
  LET hits == {n \in DOMAIN station_index_map :
                 IsSubstring(STATION_NAME_CHARS[station_index_map[n]], text)}
  IN  IF hits = {} THEN [found |-> FALSE]
      ELSE [found |-> TRUE,
            station |-> station_index_map[CHOOSE n \in hits : \A m \in hits : n <= m]]

\* Steps 2 and 4: the first token that a word table maps to an index of the
\* index table; 0 when none does.
FirstOrdinal(words, index_map, tokens) ==
  LET hits == {i \in DOMAIN tokens :
                 /\ tokens[i] \in DOMAIN words
                 /\ words[tokens[i]] \in DOMAIN index_map}
  IN  IF hits = {} THEN 0
      ELSE words[tokens[CHOOSE i \in hits : \A j \in hits : i <= j]]

\* The fixed responses.
HelpResponse ==
  [kind |-> "help",
   text |-> "No entendi tu pregunta. Prueba a preguntar por una estacion, una variable o un grafico."]

NoDataResponse(station, variable) ==
  [kind |-> "no_data",
   text |-> "No hay datos de " \o variable \o " en " \o station \o "."]

\* resolveIntent(text) and the composition of its response: steps 1-6 in
\* priority order, then the output rule.
resolveIntent(input) ==
  LET text == input.text
      named == station_by_name(text)
      nth == IF ~named.found /\ HasPhrase(StationWords, text)
               THEN FirstOrdinal(number_word_map_stations, station_index_map,
                                 input.tokens)
               ELSE 0
      station == IF named.found THEN named.station
                 ELSE IF nth # 0 THEN station_index_map[nth] ELSE ""
      keyword == variable_by_keyword(text)
      vth == IF ~keyword.found /\ HasPhrase(VariableWords, text)
               THEN FirstOrdinal(number_word_map_vars, VARIABLE_INDEX_MAP,
                                 input.tokens)
               ELSE 0
      variable == IF keyword.found THEN keyword.variable
                  ELSE IF vth # 0 THEN VARIABLE_INDEX_MAP[vth] ELSE ""
      sth == FirstKeyword(STAT_MAP_QUERY, text)
      statistic == IF sth # 0 THEN STAT_MAP_QUERY[sth].statistic ELSE ""
      tth == FirstKeyword(TOPIC_MAP_QUERY, text)
  IN  IF station # "" /\ variable # "" /\ statistic # ""
        THEN LET stored == getStatistic(station, variable, statistic)
             IN  IF stored.found
                   THEN [kind |-> "statistic", station |-> station,
                         variable |-> variable, statistic |-> statistic,
                         value |-> stored.value, unit |-> stored.unit,
                         text |-> statistic \o " de " \o variable \o " en "
                                    \o station \o ": " \o ToString(stored.value)
                                    \o " " \o stored.unit]
                   ELSE NoDataResponse(station, variable)
      ELSE IF station # "" /\ (HasPhrase(StationTriggers, text) \/ nth # 0)
        THEN [kind |-> "station_summary", station |-> station,
              text |-> "Estadisticas de " \o station]
      ELSE IF variable # "" /\ HasPhrase(VariableTriggers, text)
        THEN [kind |-> "variable_explanation", variable |-> variable,
              text |-> VARIABLE_DESCRIPTIONS[variable]]
      ELSE IF tth # 0
        THEN [kind |-> "topic", topic |-> TOPIC_MAP_QUERY[tth].topic,
              text |-> "Tema: " \o TOPIC_MAP_QUERY[tth].topic]
      ELSE HelpResponse

\* Lines of free text, each with its tokens.
FreeTexts ==
  { [text |-> <<"t", "e", "m", "p", "e", "r", "a", "t", "u", "r", "a", " ", "m", "á", "x", "i", "m", "a", " ", "d", "e", " ", "H", "a", "l", "l", "e", "y", " ", "U", "I", "S">>,
     tokens |-> <<"temperatura", "máxima", "de", "Halley", "UIS">>],
    [text |-> <<"p", "r", "e", "c", "i", "p", "i", "t", "a", "c", "i", "ó", "n", " ", "m", "í", "n", "i", "m", "a", " ", "d", "e", " ", "H", "a", "l", "l", "e", "y", " ", "U", "I", "S">>,
     tokens |-> <<"precipitación", "mínima", "de", "Halley", "UIS">>],
    [text |-> <<"d", "a", "t", "o", "s", " ", "d", "e", " ", "l", "a", " ", "e", "s", "t", "a", "c", "i", "ó", "n", " ", "t", "e", "r", "c", "e", "r", "a">>,
     tokens |-> <<"datos", "de", "la", "estación", "tercera">>],
    [text |-> <<"e", "s", "t", "a", "c", "i", "ó", "n", " ", "1", "5">>,
     tokens |-> <<"estación", "15">>],
    [text |-> <<"q", "u", "é", " ", "e", "s", " ", "l", "a", " ", "l", "l", "u", "v", "i", "a">>,
     tokens |-> <<"qué", "es", "la", "lluvia">>],
    [text |-> <<"h", "o", "l", "a">>,
     tokens |-> <<"hola">>],
    [text |-> <<"m", "u", "s", "i", "c", "a">>,
     tokens |-> <<"musica">>] }

\* Words a user may give for a station besides those of the table.
OtherWords == {"doceava", "12", "0", "ultima"}

\* Texts a user may give besides the bare keywords.
OtherTexts ==
  { <<"h", "o", "l", "a">>,
    <<"l", "a", " ", "t", "e", "m", "p", "e", "r", "a", "t", "u", "r", "a">>,
    <<"r", "o", "s", "a", " ", "d", "e", " ", "v", "i", "e", "n", "t", "o", "s">>,
    <<"m", "u", "s", "i", "c", "a">> }

Statistics == {"max", "min", "mean", "sum"}

\* A station is asked for by an ordinal word.
ResolveStationOrdinal(word) ==
  /\ query' = [kind |-> "ordinal", word |-> word]
  /\ answer' = station_by_word(word)
  /\ SessionsUnchanged

\* A variable is asked for by a text.
ResolveVariable(text) ==
  /\ query' = [kind |-> "variable", text |-> text]
  /\ answer' = variable_by_keyword(text)
  /\ SessionsUnchanged

\* A statistic of a variable of a station is asked for.
GetStatistic(station, variable, statistic) ==
  /\ query' = [kind |-> "statistic", station |-> station, variable |-> variable,
               statistic |-> statistic]
  /\ answer' = getStatistic(station, variable, statistic)
  /\ SessionsUnchanged

\* A new session's st.session_state: empty.
FreshSession == [keys |-> {}, chat_stage |-> "", messages |-> <<>>]

\* The sessions' states are `first` for session 1 and fresh for the others;
\* no script has run yet.
InitWith(open, first) ==
  /\ live = open
  /\ keys = [s \in Sessions |-> IF s = 1 THEN first.keys ELSE FreshSession.keys]
  /\ chat_stage =
       [s \in Sessions |-> IF s = 1 THEN first.chat_stage ELSE FreshSession.chat_stage]
  /\ messages =
       [s \in Sessions |-> IF s = 1 THEN first.messages ELSE FreshSession.messages]
  /\ rerun = [s \in Sessions |-> FALSE]
  /\ page = [s \in Sessions |-> BlankPage]
  /\ branch = [s \in Sessions |-> ""]
  /\ runs = [s \in Sessions |-> 0]
  /\ clicks = [s \in Sessions |-> 0]
  /\ visits = [s \in Sessions |-> 0]
  /\ query = NoQuery
  /\ answer = NoAnswer

\* ------------------------------------------------------- the data loader
\* COLUMN_RENAME_MAP: column name -> unified name.
COLUMN_RENAME_MAP ==
  ("nombre_estacion" :> "estacion") @@ ("lluvia_mm" :> "precipitacion")
  @@ ("temp_ext_media_c" :> "temperatura") @@ ("temp_ext_media_C" :> "temperatura")
  @@ ("hum_ext_ult" :> "humedad") @@ ("pm_2p5_media_ugm3" :> "pm2_5")
  @@ ("aqi_media_val" :> "ica") @@ ("viento_vel_media_kmh" :> "viento_velocidad")
  @@ ("viento_dir_media_grados" :> "viento_direccion")
  @@ ("presion_nivel_mar_hpa" :> "presion")

\* Column names a CSV header may hold, as written in the file; no two of them
\* give the same name once cleaned and renamed.
RawColumns ==
  {"Timestamp ", "Latitud", "longitud", "Nombre_Estacion", "Temp_Ext_Media_C",
   "lluvia_mm"}

\* col.lower().strip() on the names of RawColumns.
LowerStrip(col) ==
  CASE col = "Timestamp " -> "timestamp"
    [] col = "Latitud" -> "latitud"
    [] col = "Nombre_Estacion" -> "nombre_estacion"
    [] col = "Temp_Ext_Media_C" -> "temp_ext_media_c"
    [] OTHER -> col

\* df.rename(columns=COLUMN_RENAME_MAP) on one name.
Rename(col) == IF col \in DOMAIN COLUMN_RENAME_MAP THEN COLUMN_RENAME_MAP[col] ELSE col

\* What load_data gives: None with the errors reported, or a table.
NoTable(errors) == [table |-> FALSE, columns |-> {}, errors |-> errors, raised |-> FALSE]

\* load_data(file_path) on a file that is missing, unreadable or readable
\* with the given header, and whose timestamp values parse or do not.
load_data(file, header, dates) ==
  IF file = "missing"
    THEN NoTable(<<"No se pudo encontrar el archivo de datos", "Asegurate de que ...">>)
  ELSE IF file = "unreadable" \/ header = {}
    THEN NoTable(<<"Error al cargar los datos">>)
  ELSE LET columns == {Rename(LowerStrip(col)) : col \in header}
       IN  IF "timestamp" \notin columns
             THEN NoTable(<<"La columna 'timestamp' no se encuentra en los datos.">>)
           ELSE IF dates = "invalid"
             THEN NoTable(<<"Error al cargar los datos">>)
           ELSE IF "latitud" \notin columns \/ "longitud" \notin columns
             THEN NoTable(<<"Faltan columnas 'latitud' o 'longitud' en los datos.">>)
           ELSE [table |-> TRUE, columns |-> columns \cup {"month"},
                 errors |-> <<>>, raised |-> FALSE]

\* The script loads the data file.
LoadData(file, header, dates) ==
  /\ query' = [kind |-> "load", file |-> file, header |-> header, dates |-> dates]
  /\ answer' = load_data(file, header, dates)
  /\ SessionsUnchanged

\* The page "Analisis por Estacion" builds station_list from the table that
\* was loaded: df['estacion'] raises KeyError if the column is absent.
StationList ==
  /\ query.kind = "load"
  /\ answer.table
  /\ query' = [kind |-> "station_list", header |-> query.header]
  /\ answer' = [answer EXCEPT !.raised = "estacion" \notin answer.columns]
  /\ SessionsUnchanged

NextLoad ==
  \/ \E file \in {"missing", "unreadable", "ok"}, header \in SUBSET RawColumns,
        dates \in {"valid", "invalid"} : LoadData(file, header, dates)
  \/ StationList

\* One session, opened on a fresh st.session_state.
Init == InitWith({1}, FreshSession)

Spec == Init /\ [][Next]_vars

\* Two sessions, each opened on its own fresh st.session_state, whose script
\* runs interleave.
InitTwo == InitWith({1, 2}, FreshSession)

SpecTwo == InitTwo /\ [][Next]_vars

NextKB ==
  \/ \E station \in DOMAIN STATION_STATS_DATA : ReadStation(station)
  \/ \E station \in DOMAIN STATION_STATS_DATA, variable \in VARIABLE_KEYS :
       ReadRecord(station, variable)
  \/ \E word \in DOMAIN number_word_map_stations \cup OtherWords :
       ResolveStationOrdinal(word)
  \/ \E text \in {VAR_MAP_QUERY[i].keyword : i \in DOMAIN VAR_MAP_QUERY} \cup OtherTexts :
       ResolveVariable(text)
  \/ \E station \in DOMAIN STATION_STATS_DATA \cup {"Nowhere"},
        variable \in VARIABLE_KEYS, statistic \in Statistics :
       GetStatistic(station, variable, statistic)

\* The knowledge base as loaded, no session open.
InitKB == InitWith({}, FreshSession)

SpecKB == InitKB /\ [][NextKB]_vars

\* Stage tags no branch of the router knows: what a session can hold after the
\* source was edited under a running session (st.session_state survives it).
StaleTags == {"xyz_not_a_stage", "INICIO"}

\* The script before the Chatbot page: the loader and the station selector.
SpecLoad == InitKB /\ [][NextLoad]_vars

\* A st.session_state left by an earlier revision of the script.
StaleSessions ==
  {[keys |-> {"chat_stage", "messages"}, chat_stage |-> t, messages |-> <<Greeting>>]
     : t \in StaleTags}
  \cup {[keys |-> {"chat_stage"}, chat_stage |-> t, messages |-> <<>>] : t \in StaleTags}

\* One session, fresh or holding a stale chat_stage.
InitStale == \E first \in {FreshSession} \cup StaleSessions : InitWith({1}, first)

SpecStale == InitStale /\ [][Next]_vars

\* A line of free text is resolved. resolveIntent reads the line and the
\* tables only, so the model takes one line in a behaviour, before the first
\* script run.
Ask(input) ==
  /\ query = NoQuery
  /\ \A s \in Sessions : runs[s] = 0
  /\ query' = [kind |-> "text", input |-> input]
  /\ answer' = resolveIntent(input)
  /\ SessionsUnchanged

\* The input events: a visit or rerun, a button click, a line of free text.
NextInput ==
  \/ \E s \in Sessions : Render(s)
  \/ \E s \in Sessions, label \in Labels : Click(s, label)
  \/ \E input \in FreeTexts : Ask(input)

SpecInput == InitStale /\ [][NextInput]_vars

\* ------------------------------------------------------------ the claims
IsPrefix(a, b) == Len(a) <= Len(b) /\ SubSeq(b, 1, Len(a)) = a

\* The page of session s is at rest: a script has run and asked for no rerun.
Quiescent(s) == s \in live /\ runs[s] > 0 /\ ~rerun[s]

\* C1: after k completed turns (button clicks handled until the page is at
\* rest, with no other script run than the first visit) the transcript has
\* exactly 1 + 2*k messages.
C1_TranscriptLength ==
  \A s \in Sessions :
    (Quiescent(s) /\ visits[s] <= 1) => Len(messages[s]) = 1 + 2 * clicks[s]

\* C2: the transcript is append-only: every step of every session leaves the
\* messages already present where they are, with the same role and content.
C2_AppendOnly ==
  [][\A s \in Sessions : IsPrefix(messages[s], messages'[s])]_vars

\* A session that clicked its way into a stage and back: the transcript grew
\* under clicks, reruns and a return to the page.
C2_Witness ==
  /\ clicks[1] >= 2 /\ visits[1] >= 2
  /\ Len(messages[1]) >= 5
  /\ messages[1][Len(messages[1])].role = "user"

\* C3: initialisation is idempotent and never resets a conversation: on a
\* session state that has both keys it changes nothing, applied twice it gives
\* what it gives applied once, and on a fresh session it gives stage "inicio"
\* and the transcript of the seed greeting alone.
C3_InitIdempotent ==
  /\ \A s \in Sessions :
       LET ss == SessionState(s)
       IN  /\ {"chat_stage", "messages"} \subseteq ss.keys => Initialize(ss) = ss
           /\ Initialize(Initialize(ss)) = Initialize(ss)
           /\ "chat_stage" \in ss.keys => Initialize(ss).chat_stage = ss.chat_stage
           /\ "messages" \in ss.keys => Initialize(ss).messages = ss.messages
  /\ Initialize(Initialize(FreshSession)).chat_stage = "inicio"
  /\ Initialize(Initialize(FreshSession)).messages = <<Greeting>>

\* A conversation in progress that the initialisation step has met again: the
\* page was left and visited again in a stage other than the root.
C3_Witness ==
  /\ visits[1] >= 2 /\ clicks[1] >= 1
  /\ chat_stage[1] # "inicio"
  /\ Len(messages[1]) >= 3

\* The script run a click on `label` triggers in session s.
AfterClick(s, label) == ScriptRun(SessionState(s), label)

\* The tags the buttons of session s's page lead to.
Targets(s) == {AfterClick(s, label).chat_stage : label \in Offered(s)}

\* Each button of session s's page with the tag it leads to.
Transitions(s) == {<<label, AfterClick(s, label).chat_stage>> : label \in Offered(s)}

\* Session s handles a click / runs the script in this step.
Clicked(s) == clicks'[s] # clicks[s]
Ran(s) == runs'[s] # runs[s]

\* The content of the user messages of a transcript, in order.
RECURSIVE UserTags(_)
UserTags(msgs) ==
  IF msgs = <<>> THEN <<>>
  ELSE LET rest == UserTags(SubSeq(msgs, 1, Len(msgs) - 1))
           last == msgs[Len(msgs)]
       IN  IF last.role = "user" THEN Append(rest, last.content) ELSE rest

\* What the script shows for stage "inicio" over a given transcript.
InicioPage(transcript) ==
  LET r == ScriptRun([keys |-> {"chat_stage", "messages"}, chat_stage |-> "inicio",
                      messages |-> transcript], NoClick)
  IN  [transcript |-> r.transcript, body |-> r.body, buttons |-> r.buttons]

\* C4: a script run that finds a chat_stage no branch recognises forces the
\* stage to "inicio" and asks for a rerun, and the run that follows shows
\* exactly what stage "inicio" shows (the root menu with its buttons).
C4_UnknownStageRecovery ==
  [][\A s \in Sessions :
       Ran(s) =>
         /\ ("chat_stage" \in keys[s] /\ Router(chat_stage[s]).branch = "else") =>
              /\ branch'[s] = "else"
              /\ chat_stage'[s] = "inicio"
              /\ rerun'[s]
         /\ (branch[s] = "else" /\ rerun[s]) =>
              /\ chat_stage'[s] = "inicio"
              /\ ~rerun'[s]
              /\ page'[s] = InicioPage(messages[s])
              /\ page'[s].buttons # <<>>]_vars

\* A session that started on a stale stage and now shows the root menu.
C4_Witness ==
  /\ runs[1] = 2 /\ visits[1] = 1 /\ clicks[1] = 0
  /\ branch[1] = "inicio" /\ chat_stage[1] = "inicio"
  /\ ~rerun[1] /\ Len(page[1].buttons) = 5

\* C5: the back button of a per-variable detail stage leads to "variables"
\* and that of a per-chart detail stage to "graficos"; a detail stage offers
\* a back button and no button that leads to "inicio".
C5_DetailBack ==
  /\ [](\A s \in Sessions :
          (Quiescent(s) /\ chat_stage[s] \in DOMAIN VARIABLE_DESCRIPTIONS) =>
            Targets(s) = {"variables"})
  /\ [](\A s \in Sessions :
          (Quiescent(s) /\ chat_stage[s] \in DOMAIN CHART_DESCRIPTIONS) =>
            Targets(s) = {"graficos"})
  /\ [][\A s \in Sessions :
          Clicked(s) =>
            /\ chat_stage[s] \in DOMAIN VARIABLE_DESCRIPTIONS =>
                 chat_stage'[s] = "variables"
            /\ chat_stage[s] \in DOMAIN CHART_DESCRIPTIONS =>
                 chat_stage'[s] = "graficos"]_vars

\* Back was clicked in a per-variable detail stage.
C5_Witness ==
  /\ Quiescent(1) /\ chat_stage[1] = "variables"
  /\ LET tags == UserTags(messages[1])
     IN  /\ Len(tags) >= 2
         /\ tags[Len(tags)] = "variables"
         /\ tags[Len(tags) - 1] \in DOMAIN VARIABLE_DESCRIPTIONS

TopicStages == {"navegacion", "graficos", "variables", "estaciones", "racimo"}

\* C6: the root menu offers five buttons that lead to the five topic stages,
\* one each, and a click in stage "inicio" leads to a topic stage.
C6_RootTransitions ==
  /\ [](\A s \in Sessions :
          (Quiescent(s) /\ chat_stage[s] = "inicio") =>
            /\ Cardinality(Offered(s)) = 5
            /\ Targets(s) = TopicStages)
  /\ [][\A s \in Sessions :
          (Clicked(s) /\ chat_stage[s] = "inicio") =>
            chat_stage'[s] \in TopicStages]_vars

\* A topic stage entered by one click from the root menu.
C6_Witness ==
  /\ clicks[1] = 1 /\ Quiescent(1)
  /\ chat_stage[1] = "racimo" /\ branch[1] = "racimo"

\* C7: stage "variables" offers 8 variable buttons, one per entry of
\* VARIABLE_INDEX_MAP, then the back button; the i-th leads to the tag
\* VARIABLE_INDEX_MAP[i], the 8 tags are the keys of VARIABLE_DESCRIPTIONS, and
\* back leads to "inicio"; in the stage of variable v the router shows
\* VARIABLE_DESCRIPTIONS[v] and does not take the fallback.
C7_VariableMenu ==
  /\ [](\A s \in Sessions :
          (Quiescent(s) /\ chat_stage[s] = "variables") =>
            LET b == page[s].buttons
            IN  /\ Len(b) = 9 /\ Cardinality(Offered(s)) = 9
                /\ Len(VARIABLE_INDEX_MAP) = 8
                /\ \A i \in 1..8 :
                     AfterClick(s, b[i]).chat_stage = VARIABLE_INDEX_MAP[i]
                /\ {AfterClick(s, b[i]).chat_stage : i \in 1..8}
                     = DOMAIN VARIABLE_DESCRIPTIONS
                /\ AfterClick(s, b[9]).chat_stage = "inicio")
  /\ [](\A s \in Sessions :
          (Quiescent(s) /\ chat_stage[s] \in DOMAIN VARIABLE_DESCRIPTIONS) =>
            /\ branch[s] = "in VARIABLE_DESCRIPTIONS"
            /\ page[s].body = <<VARIABLE_DESCRIPTIONS[chat_stage[s]]>>)
  /\ [][\A s \in Sessions :
          (Clicked(s) /\ chat_stage[s] = "variables") =>
            chat_stage'[s] \in DOMAIN VARIABLE_DESCRIPTIONS \cup {"inicio"}]_vars

\* The stage of the variable that has no friendly label, entered from the menu.
C7_Witness ==
  /\ Quiescent(1) /\ chat_stage[1] = "viento_direccion"
  /\ clicks[1] = 2
  /\ page[1].body = <<VARIABLE_DESCRIPTIONS["viento_direccion"]>>

\* C8: stage "estaciones" offers yes, which leads to "stats_si", and no and
\* back, which lead to "inicio", and nothing else; stage "stats_si" offers
\* only back, which leads to "inicio".
C8_StationInfo ==
  /\ [](\A s \in Sessions :
          (Quiescent(s) /\ chat_stage[s] = "estaciones") =>
            Transitions(s) = {<<"Si, mostrar estadisticas", "stats_si">>,
                              <<"No, gracias", "inicio">>,
                              <<BackToMenu, "inicio">>})
  /\ [](\A s \in Sessions :
          (Quiescent(s) /\ chat_stage[s] = "stats_si") =>
            Transitions(s) = {<<BackToMenu, "inicio">>})
  /\ [][\A s \in Sessions :
          Clicked(s) =>
            /\ chat_stage[s] = "estaciones" => chat_stage'[s] \in {"stats_si", "inicio"}
            /\ chat_stage[s] = "stats_si" => chat_stage'[s] = "inicio"]_vars

\* Yes was clicked in "estaciones" and then back in "stats_si".
C8_Witness ==
  /\ Quiescent(1) /\ chat_stage[1] = "inicio"
  /\ UserTags(messages[1]) = <<"estaciones", "stats_si", "inicio">>

\* C9: stage "graficos" offers five chart buttons, which lead to the five keys
\* of CHART_DESCRIPTIONS, and then back, which leads to "inicio"; back in a
\* chart detail stage leads to "graficos".
C9_ChartMenu ==
  /\ [](\A s \in Sessions :
          (Quiescent(s) /\ chat_stage[s] = "graficos") =>
            LET b == page[s].buttons
            IN  /\ Len(b) = 6 /\ Cardinality(Offered(s)) = 6
                /\ {AfterClick(s, b[i]).chat_stage : i \in 1..5}
                     = DOMAIN CHART_DESCRIPTIONS
                /\ AfterClick(s, b[6]).chat_stage = "inicio")
  /\ [][\A s \in Sessions :
          Clicked(s) =>
            /\ chat_stage[s] = "graficos" =>
                 chat_stage'[s] \in DOMAIN CHART_DESCRIPTIONS \cup {"inicio"}
            /\ branch[s] = "in CHART_DESCRIPTIONS" => chat_stage'[s] = "graficos"]_vars

\* Back from depth 2 and then back from depth 1 in the chart guide.
C9_Witness ==
  /\ Quiescent(1) /\ chat_stage[1] = "inicio"
  /\ LET tags == UserTags(messages[1])
     IN  /\ Len(tags) = 4
         /\ tags[1] = "graficos" /\ tags[2] \in DOMAIN CHART_DESCRIPTIONS
         /\ tags[3] = "graficos" /\ tags[4] = "inicio"

\* The page at rest after a click on `label` over session state ss: the run the
\* click triggers and the rerun it asks for.
Turn(ss, label) ==
  LET r == ScriptRun(ss, label)
  IN  IF r.aborted \/ r.needs_rerun
        THEN ScriptRun([keys |-> r.keys, chat_stage |-> r.chat_stage,
                        messages |-> r.messages], NoClick)
        ELSE r

StateOf(r) == [keys |-> r.keys, chat_stage |-> r.chat_stage, messages |-> r.messages]

ButtonsOf(r) == {r.buttons[i] : i \in 1..Len(r.buttons)}

\* C10: no stage is terminal: every page at rest offers a button, and from it
\* stage "inicio" is shown again after at most two clicks.
C10_NoTerminalStage ==
  \A s \in Sessions :
    Quiescent(s) =>
      /\ Offered(s) # {}
      /\ \/ chat_stage[s] = "inicio"
         \/ \E l1 \in Offered(s) :
              LET r1 == Turn(SessionState(s), l1)
              IN  /\ ~(r1.aborted \/ r1.needs_rerun)
                  /\ \/ r1.chat_stage = "inicio" /\ r1.branch = "inicio"
                     \/ \E l2 \in ButtonsOf(r1) :
                          LET r2 == Turn(StateOf(r1), l2)
                          IN  /\ ~(r2.aborted \/ r2.needs_rerun)
                              /\ r2.chat_stage = "inicio"
                              /\ r2.branch = "inicio"

\* The root menu shown again after two back clicks from a detail stage.
C10_Witness ==
  /\ Quiescent(1) /\ chat_stage[1] = "inicio" /\ branch[1] = "inicio"
  /\ LET tags == UserTags(messages[1])
     IN  /\ Len(tags) = 4
         /\ tags[1] = "variables" /\ tags[2] \in DOMAIN VARIABLE_DESCRIPTIONS
         /\ tags[3] = "variables" /\ tags[4] = "inicio"

\* ------------------------------------------- claims on the knowledge base
\* C13: every variable record of every station has a non-empty unit.
C13_UnitNonEmpty ==
  (query.kind = "record" /\ answer.found) => answer.record.unit # ""

\* The stored numbers of a record that has min, mean and max are in order.
Ordered(record) == record.min <= record.mean /\ record.mean <= record.max

\* C14: for every station and every variable but precipitacion the stored
\* values (in hundredths) satisfy min <= mean <= max.
C14_MinMeanMax ==
  (query.kind = "record" /\ answer.found /\ query.variable # "precipitacion") =>
    /\ {"min", "mean", "max"} \subseteq DOMAIN answer.record
    /\ Ordered(answer.record)

\* A record whose three values differ was read.
C14_Witness ==
  /\ query.kind = "record" /\ query.variable = "viento_velocidad"
  /\ query.station = "RACiMo BucSanAIR5"
  /\ answer.found /\ answer.record.min < answer.record.mean
  /\ answer.record.mean < answer.record.max

SevenVariables ==
  {"temperatura", "humedad", "precipitacion", "pm2_5", "ica", "viento_velocidad",
   "presion"}

\* C15 as claimed: every stats mapping has exactly the seven variable keys and
\* every record has max, min, mean and unit, precipitacion also sum.
C15_AllFields ==
  /\ (query.kind = "station" /\ answer.found) => answer.variables = SevenVariables
  /\ (query.kind = "record" /\ answer.found) =>
       DOMAIN answer.record =
         IF query.variable = "precipitacion"
           THEN {"max", "min", "mean", "unit", "sum"}
           ELSE {"max", "min", "mean", "unit"}

\* C15 amended: every stats mapping has exactly the seven variable keys; every
\* record has max, mean and unit; every variable but precipitacion has min as
\* well, and precipitacion has sum and no min.
C15_Fields ==
  /\ (query.kind = "station" /\ answer.found) => answer.variables = SevenVariables
  /\ (query.kind = "record" /\ answer.found) =>
       DOMAIN answer.record =
         IF query.variable = "precipitacion"
           THEN {"max", "mean", "unit", "sum"}
           ELSE {"max", "min", "mean", "unit"}

\* The precipitation record of the last station was read.
C15_Witness ==
  /\ query.kind = "record" /\ query.variable = "precipitacion"
  /\ query.station = "RACiMo SocConvAir4.1"
  /\ answer.found /\ "sum" \in DOMAIN answer.record

\* The names that sort before a station name.
NamesBefore(station) ==
  {x \in DOMAIN STATION_STATS_DATA : NameLess(x, station)}

\* C12: every word of number_word_map_stations for an index n in
\* 1..station_count resolves to the n-th station in lexicographic order (the one
\* with n - 1 names before it); the table has a word for every such n and no
\* word for an index outside 1..station_count.
C12_OrdinalWords ==
  /\ {number_word_map_stations[w] : w \in DOMAIN number_word_map_stations}
       = 1..Cardinality(DOMAIN STATION_STATS_DATA)
  /\ (query.kind = "ordinal" /\ query.word \in DOMAIN number_word_map_stations) =>
       /\ answer.found
       /\ answer.index = number_word_map_stations[query.word]
       /\ answer.station \in DOMAIN STATION_STATS_DATA
       /\ Cardinality(NamesBefore(answer.station)) = answer.index - 1
  /\ (query.kind = "ordinal" /\ query.word \notin DOMAIN number_word_map_stations) =>
       ~answer.found

\* The last station asked for by its ordinal word.
C12_Witness ==
  /\ query.kind = "ordinal" /\ query.word = "onceava"
  /\ answer.found /\ answer.station = "RACiMo SocConvAir4.1"

\* C16: a query that binds station, variable and statistic gives the value
\* stored at STATION_STATS_DATA[station]['stats'][variable][statistic] with the
\* record's unit; Halley UIS, temperatura, max gives 31.17 with unit "°C".
C16_StatisticLookup ==
  query.kind = "statistic" =>
    /\ answer.found =>
         /\ answer.value =
              STATION_STATS_DATA[query.station].stats[query.variable][query.statistic]
         /\ answer.unit = STATION_STATS_DATA[query.station].stats[query.variable].unit
    /\ (query.station = "Halley UIS" /\ query.variable = "temperatura"
          /\ query.statistic = "max") =>
         /\ answer.found
         /\ answer.value = 3117
         /\ answer.unit = "°C"

\* The temperature maximum of Halley UIS was asked for.
C16_Witness ==
  /\ query.kind = "statistic" /\ query.station = "Halley UIS"
  /\ query.variable = "temperatura" /\ query.statistic = "max"
  /\ answer.found

\* The variable the table gives for a keyword.
VariableOf(keyword) ==
  LET i == CHOOSE i \in DOMAIN VAR_MAP_QUERY : VAR_MAP_QUERY[i].keyword = keyword
  IN  VAR_MAP_QUERY[i].variable

\* C17: no keyword of VAR_MAP_QUERY is shadowed: a text that is a keyword k
\* alone resolves, by first substring match in table order, to VAR_MAP_QUERY[k].
C17_NoShadowedKeyword ==
  (query.kind = "variable"
     /\ \E i \in DOMAIN VAR_MAP_QUERY : VAR_MAP_QUERY[i].keyword = query.text) =>
    /\ answer.found
    /\ answer.variable = VariableOf(query.text)
    /\ query.text \in {<<"l", "l", "u", "v", "i", "a">>,
                       <<"p", "r", "e", "c", "i", "p", "i", "t", "a", "c", "i", "ó", "n">>} =>
         answer.variable = "precipitacion"
    /\ query.text \in {<<"t", "e", "m", "p">>, <<"c", "a", "l", "o", "r">>} =>
         answer.variable = "temperatura"
    /\ query.text \in {<<"r", "o", "s", "a">>,
                       <<"d", "i", "r", "e", "c", "c", "i", "ó", "n">>} =>
         answer.variable = "viento_direccion"

\* The keyword "temperatura", which holds the later keyword "temp", was resolved
\* by its own entry.
C17_Witness ==
  /\ query.kind = "variable"
  /\ query.text = <<"t", "e", "m", "p", "e", "r", "a", "t", "u", "r", "a">>
  /\ answer.found /\ answer.entry = 4 /\ answer.variable = "temperatura"

\* The station with n - 1 station names before it in lexicographic order.
NthStation(n) ==
  CHOOSE x \in DOMAIN STATION_STATS_DATA : Cardinality(NamesBefore(x)) = n - 1

\* The numbered list over the lexicographic order of the names.
ExpectedStationLines ==
  [n \in 1..Cardinality(DOMAIN STATION_STATS_DATA) |->
     ToString(n) \o ". " \o NthStation(n)]

\* C11: the station count and the numbered list shown in stage "estaciones"
\* and the table station_index_map derive from one lexicographically sorted
\* list of the names: item n of the list names station_index_map[n], the n-th
\* name in that order, and the count shown is the number of stations.
C11_StationOrdering ==
  \A s \in Sessions :
    (Quiescent(s) /\ chat_stage[s] = "estaciones") =>
      LET shown == response_est_text(Cardinality(DOMAIN STATION_STATS_DATA),
                                     Join(ExpectedStationLines, "\n"))
      IN  /\ station_count = Cardinality(DOMAIN STATION_STATS_DATA)
          /\ DOMAIN station_index_map = 1..station_count
          /\ \A n \in 1..station_count :
               /\ station_index_map[n] = unique_stations[n]
               /\ station_index_map[n] = NthStation(n)
          /\ numbered_list_lines = ExpectedStationLines
          /\ page[s].body = <<shown>>
          /\ messages[s][Len(messages[s])] =
               [role |-> "assistant", content |-> shown]

\* The station list is on the page.
C11_Witness ==
  /\ Quiescent(1) /\ chat_stage[1] = "estaciones" /\ clicks[1] = 1
  /\ page[1].body = <<response_est>>

\* The tag the button `label` of a branch carries.
TargetOf(steps, label) ==
  LET i == CHOOSE i \in DOMAIN steps : steps[i].op = "button" /\ steps[i].arg = label
  IN  steps[i].target

\* The tags of the buttons of a branch.
ButtonTags(steps) ==
  {steps[i].target : i \in {j \in DOMAIN steps : steps[j].op = "button"}}

\* C20: every button click, in every stage, sets chat_stage to the button's
\* tag, leaves a user message with that tag as content at the end of the
\* transcript and asks for a rerun; the tag is not validated.
C20_ClickEffect ==
  /\ [](\A s \in Sessions :
          Quiescent(s) =>
            \A label \in Offered(s) :
              LET r == AfterClick(s, label)
                  tag == TargetOf(Router(chat_stage[s]).steps, label)
              IN  /\ r.chat_stage = tag
                  /\ r.messages[Len(r.messages)] = [role |-> "user", content |-> tag]
                  /\ r.aborted)
  /\ [](\A s \in Sessions : \A tag \in {"xyz_not_a_stage", ""} :
          Quiescent(s) =>
            LET r0 == ScriptRun(SessionState(s), NoClick)
                r == handle_rerun(r0, tag)
            IN  /\ r.chat_stage = tag
                /\ r.messages[Len(r.messages)] = [role |-> "user", content |-> tag]
                /\ r.aborted)
  /\ [][\A s \in Sessions :
          Clicked(s) =>
            /\ chat_stage'[s] \in ButtonTags(Router(chat_stage[s]).steps)
            /\ messages'[s][Len(messages'[s])] =
                 [role |-> "user", content |-> chat_stage'[s]]
            /\ rerun'[s]]_vars

\* A click was handled and its rerun is pending.
C20_Witness ==
  /\ rerun[1] /\ clicks[1] = 2 /\ chat_stage[1] = "stats_si"
  /\ messages[1][Len(messages[1])] = [role |-> "user", content |-> "stats_si"]

\* What st.session_state of session s holds and what its page shows.
Own(s) ==
  [keys |-> keys[s], chat_stage |-> chat_stage[s], messages |-> messages[s],
   rerun |-> rerun[s], page |-> page[s]]

\* C19: sessions are isolated: a render or a click of one session leaves the
\* chat_stage, the messages and the page of every other session as they were,
\* and takes the session to the state the script gives from that session's own
\* state alone.
C19_SessionIsolation ==
  [][\A s \in Sessions :
       Ran(s) =>
         /\ \A t \in Sessions \ {s} : Own(t)' = Own(t)
         /\ \E label \in Offered(s) \cup {NoClick} :
              LET r == ScriptRun(SessionState(s), label)
              IN  /\ SessionState(s)' = StateOf(r)
                  /\ page'[s].body = r.body]_vars

\* Both sessions have clicked and rest in different stages.
C19_Witness ==
  /\ Quiescent(1) /\ Quiescent(2)
  /\ clicks[1] >= 1 /\ clicks[2] >= 1
  /\ chat_stage[1] = "estaciones" /\ chat_stage[2] = "variables"

\* The page shows text and a menu, in a stage the router knows.
Answered(stage, body, buttons) ==
  /\ body # <<>> /\ \A i \in DOMAIN body : body[i] # ""
  /\ buttons # <<>>
  /\ Router(stage).branch # "else"

\* No station name, keyword or ordinal word of any table occurs in the input.
Unmatched(input) ==
  /\ \A x \in DOMAIN STATION_NAME_CHARS :
       ~IsSubstring(STATION_NAME_CHARS[x], input.text)
  /\ \A i \in DOMAIN VAR_MAP_QUERY : ~IsSubstring(VAR_MAP_QUERY[i].keyword, input.text)
  /\ \A i \in DOMAIN STAT_MAP_QUERY : ~IsSubstring(STAT_MAP_QUERY[i].keyword, input.text)
  /\ \A i \in DOMAIN TOPIC_MAP_QUERY : ~IsSubstring(TOPIC_MAP_QUERY[i].keyword, input.text)
  /\ \A i \in DOMAIN input.tokens :
       input.tokens[i] \notin DOMAIN number_word_map_stations
                                \cup DOMAIN number_word_map_vars

ResponseKinds ==
  {"statistic", "no_data", "station_summary", "variable_explanation", "topic", "help"}

\* C18: no input fails: every script run, whatever button was clicked and
\* whatever tag the session holds, either asks for a rerun or leaves a page at
\* rest that shows text and a menu in a known stage; a session found with a
\* tag that is no stage is shown the root menu; every line of free text gets
\* a response of a known kind with non-empty text, and a line that matches
\* nothing gets the fixed help response.
C18_NeverFails ==
  /\ \A s \in Sessions :
       Quiescent(s) => Answered(chat_stage[s], page[s].body, page[s].buttons)
  /\ \A s \in live : \A tag \in StaleTags \cup {""} :
       runs[s] = 0 =>
         LET r == Turn([keys |-> keys[s] \cup {"chat_stage"}, chat_stage |-> tag,
                        messages |-> messages[s]], NoClick)
         IN  /\ ~(r.aborted \/ r.needs_rerun)
             /\ Answered(r.chat_stage, r.body, r.buttons)
             /\ r.chat_stage = "inicio"
  /\ query.kind = "text" =>
       /\ answer.kind \in ResponseKinds
       /\ answer.text # ""
       /\ answer = HelpResponse \/ ~Unmatched(query.input)

\* A session that began with a stale stage tag (the fallback's rerun is the
\* one run more than a visit and two runs a click) rests on a page after a
\* click, and a line that matches nothing got the help response.
C18_Witness ==
  /\ Quiescent(1) /\ clicks[1] >= 1 /\ branch[1] # "else"
  /\ runs[1] = visits[1] + 2 * clicks[1] + 1
  /\ query.kind = "text" /\ Unmatched(query.input) /\ query.input.text # <<>>
  /\ answer = HelpResponse

\* The last element of a non-empty sequence.
Last(seq) == seq[Len(seq)]

\* C21: the stage changes only through a button click: whenever the
\* transcript holds a user message, the content of the most recent one is the
\* current chat_stage, and a step that changes chat_stage is a click that
\* leaves the user message with the new stage at the end of the transcript.
C21_StageFollowsClick ==
  /\ [](\A s \in Sessions :
          UserTags(messages[s]) # <<>> => Last(UserTags(messages[s])) = chat_stage[s])
  /\ [][\A s \in Sessions :
          (runs[s] > 0 /\ chat_stage'[s] # chat_stage[s]) =>
            /\ Clicked(s)
            /\ Last(messages'[s]) = [role |-> "user", content |-> chat_stage'[s]]]_vars

\* The session went into a stage and came back to "inicio" by a click.
C21_Witness ==
  /\ Quiescent(1) /\ chat_stage[1] = "inicio"
  /\ UserTags(messages[1]) = <<"variables", "temperatura", "variables", "inicio">>

\* The stages whose branch appends an assistant message, and the message.
AppendStages ==
  {"navegacion", "estaciones", "racimo", "stats_si"}
    \cup DOMAIN VARIABLE_DESCRIPTIONS \cup DOMAIN CHART_DESCRIPTIONS

StageMessage(stage) ==
  [role |-> "assistant",
   content |-> CASE stage = "navegacion" -> response_nav
                 [] stage = "estaciones" -> response_est
                 [] stage = "racimo" -> response_racimo
                 [] stage = "stats_si" -> response_stats
                 [] stage \in DOMAIN VARIABLE_DESCRIPTIONS -> VARIABLE_DESCRIPTIONS[stage]
                 [] stage \in DOMAIN CHART_DESCRIPTIONS -> ChartMessage(stage)]

\* The session state after the script run r.
After(r) == [keys |-> r.keys, chat_stage |-> r.chat_stage, messages |-> r.messages]

\* C22: a render with no button clicked in stage "navegacion", "estaciones",
\* "racimo", "stats_si", a variable detail or a chart detail appends exactly
\* one assistant message, the stage's, and leaves chat_stage as it is; two and
\* three such renders in a row append two and three copies of it.
C22_RenderAppends ==
  /\ [](\A s \in Sessions :
          (Quiescent(s) /\ chat_stage[s] \in AppendStages) =>
            LET m == StageMessage(chat_stage[s])
                r1 == ScriptRun(SessionState(s), NoClick)
                r2 == ScriptRun(After(r1), NoClick)
                r3 == ScriptRun(After(r2), NoClick)
            IN  /\ r2.messages = messages[s] \o <<m, m>>
                /\ r3.messages = messages[s] \o <<m, m, m>>
                /\ r3.chat_stage = chat_stage[s])
  /\ [][\A s \in Sessions :
          (Ran(s) /\ ~Clicked(s) /\ chat_stage[s] \in AppendStages) =>
            /\ chat_stage'[s] = chat_stage[s]
            /\ messages'[s] = Append(messages[s], StageMessage(chat_stage[s]))]_vars

\* The user left the page in stage "stats_si" and came back: two copies.
C22_Witness ==
  /\ Quiescent(1) /\ visits[1] = 2 /\ chat_stage[1] = "stats_si"
  /\ Len(messages[1]) >= 2
  /\ messages[1][Len(messages[1])] = StageMessage("stats_si")
  /\ messages[1][Len(messages[1]) - 1] = StageMessage("stats_si")

\* C23: in a run where a button is clicked, stages "navegacion", "estaciones"
\* and "stats_si" add the assistant message and then the user message, while
\* "racimo", a variable detail and a chart detail add the user message alone.
C23_ClickAppendOrder ==
  [][\A s \in Sessions :
       Clicked(s) =>
         LET user == [role |-> "user", content |-> chat_stage'[s]]
         IN  /\ chat_stage[s] \in {"navegacion", "estaciones", "stats_si"} =>
                  messages'[s] = messages[s] \o <<StageMessage(chat_stage[s]), user>>
             /\ chat_stage[s] \in {"racimo"} \cup DOMAIN VARIABLE_DESCRIPTIONS
                                   \cup DOMAIN CHART_DESCRIPTIONS =>
                  messages'[s] = Append(messages[s], user)]_vars

\* Back was clicked in "navegacion" and then in "racimo".
C23_Witness ==
  /\ rerun[1] /\ clicks[1] = 4
  /\ UserTags(messages[1]) = <<"navegacion", "inicio", "racimo", "inicio">>

\* C24: a render with no button clicked in stage "inicio", "graficos" or
\* "variables" leaves chat_stage and messages as they are.
C24_MenuRenderFrame ==
  [][\A s \in Sessions :
       ( /\ Ran(s) /\ ~Clicked(s)
         /\ {"chat_stage", "messages"} \subseteq keys[s]
         /\ chat_stage[s] \in {"inicio", "graficos", "variables"} ) =>
         /\ chat_stage'[s] = chat_stage[s]
         /\ messages'[s] = messages[s]]_vars

\* The user left the page in stage "variables" and came back.
C24_Witness ==
  /\ Quiescent(1) /\ visits[1] = 2 /\ runs[1] = 4 /\ chat_stage[1] = "variables"
  /\ messages[1] = <<Greeting, [role |-> "user", content |-> "variables"]>>

\* The tags the if/elif chain compares with, and all the tags it matches.
FixedTags ==
  {"inicio", "navegacion", "graficos", "variables", "estaciones", "racimo", "stats_si"}

KnownTags == FixedTags \cup DOMAIN VARIABLE_DESCRIPTIONS \cup DOMAIN CHART_DESCRIPTIONS

\* C25: from a fresh session and through the offered buttons, chat_stage is
\* always a known tag; the fixed tags, the keys of VARIABLE_DESCRIPTIONS and
\* the keys of CHART_DESCRIPTIONS are pairwise disjoint, so the branch of a
\* tag is the one of its own set; the fallback branch is never run.
C25_KnownStages ==
  /\ FixedTags \cap DOMAIN VARIABLE_DESCRIPTIONS = {}
  /\ FixedTags \cap DOMAIN CHART_DESCRIPTIONS = {}
  /\ DOMAIN VARIABLE_DESCRIPTIONS \cap DOMAIN CHART_DESCRIPTIONS = {}
  /\ \A s \in Sessions :
       /\ "chat_stage" \in keys[s] =>
            /\ chat_stage[s] \in KnownTags
            /\ Router(chat_stage[s]).branch =
                 IF chat_stage[s] \in FixedTags THEN chat_stage[s]
                 ELSE IF chat_stage[s] \in DOMAIN VARIABLE_DESCRIPTIONS
                   THEN "in VARIABLE_DESCRIPTIONS"
                 ELSE "in CHART_DESCRIPTIONS"
       /\ branch[s] # "else"
       /\ \A label \in Offered(s) : AfterClick(s, label).chat_stage \in KnownTags

\* The session rests in a chart detail stage.
C25_Witness ==
  /\ Quiescent(1) /\ chat_stage[1] = "rosa_vientos"
  /\ branch[1] = "in CHART_DESCRIPTIONS" /\ clicks[1] = 2

\* C26: the run that finds an unknown chat_stage sets "inicio" and appends no
\* message; a run asks for a rerun exactly when a button was clicked in it or
\* the stage was unknown, the run that follows asks for none, and so a session
\* has run the script at most twice per visit or click.
C26_RerunsStop ==
  /\ [](\A s \in Sessions : runs[s] <= 2 * (visits[s] + clicks[s]))
  /\ [][\A s \in Sessions :
          Ran(s) =>
            LET ss == Initialize(SessionState(s))
                unknown == Router(ss.chat_stage).branch = "else"
            IN  /\ rerun'[s] <=> (Clicked(s) \/ unknown)
                /\ unknown => /\ messages'[s] = ss.messages
                              /\ chat_stage'[s] = "inicio"
                /\ rerun[s] => ~rerun'[s]]_vars

\* A stale stage was recovered from: two runs for the one visit, the page at
\* rest, nothing but the greeting in the transcript.
C26_Witness ==
  /\ Quiescent(1) /\ visits[1] = 1 /\ clicks[1] = 0 /\ runs[1] = 2
  /\ messages[1] = <<Greeting>> /\ chat_stage[1] = "inicio"

\* C27: once the script has run, the transcript is non-empty and begins with
\* the seeded greeting; every message has role "user" or "assistant", and the
\* content of every user message is a stage tag.
C27_TranscriptShape ==
  \A s \in Sessions :
    runs[s] > 0 =>
      /\ messages[s] # <<>>
      /\ messages[s][1] = Greeting
      /\ Greeting.role = "assistant"
      /\ \A i \in DOMAIN messages[s] :
           /\ messages[s][i].role \in {"user", "assistant"}
           /\ messages[s][i].role = "user" => messages[s][i].content \in KnownTags

\* A transcript with the greeting, user messages and assistant messages.
C27_Witness ==
  /\ Quiescent(1) /\ clicks[1] = 3 /\ messages[1][1] = Greeting
  /\ Len(UserTags(messages[1])) = 3 /\ Len(messages[1]) >= 6

\* C28: the summary of stage "stats_si" reads no absent key: of every station
\* it reads latitud, longitud and stats, of a precipitacion record unit, sum
\* and max, of every other record unit, max, min and mean, and each of these
\* keys is in STATION_STATS_DATA; no read raises.
C28_SummaryReads ==
  /\ \A station \in DOMAIN STATION_STATS_DATA :
       /\ {"latitud", "longitud"} \subseteq DOMAIN STATION_STATS_DATA[station]
       /\ \A variable \in DOMAIN STATION_STATS_DATA[station].stats :
            FieldsRead(variable) \subseteq DOMAIN STATION_STATS_DATA[station].stats[variable]
  /\ query.kind = "station" =>
       /\ answer.read \subseteq answer.fields
       /\ ~answer.raised
  /\ query.kind = "record" =>
       /\ answer.read = IF query.variable = "precipitacion" THEN {"unit", "sum", "max"}
                        ELSE {"unit", "max", "min", "mean"}
       /\ answer.read \subseteq DOMAIN answer.record
       /\ ~answer.raised

\* The loop is at a precipitacion record, which has no min, and reads sum.
C28_Witness ==
  /\ query.kind = "record" /\ query.variable = "precipitacion"
  /\ query.station = "RACiMo MalagaCONS3"
  /\ "min" \notin DOMAIN answer.record
  /\ "sum" \in answer.read /\ ~answer.raised

\* The columns the pages need of the table.
RequiredColumns == {"estacion", "latitud", "longitud", "timestamp"}

\* C29: load_data raises nothing; it gives None, with an error reported, when
\* the file is missing or unreadable or lacks a required column, and every
\* table it gives has the columns estacion, latitud, longitud and timestamp.
C29_LoadValidated ==
  query.kind = "load" =>
    /\ ~answer.raised
    /\ ( \/ query.file # "ok"
         \/ ~(RequiredColumns \subseteq {Rename(LowerStrip(col)) : col \in query.header}) )
       => (~answer.table /\ answer.errors # <<>>)
    /\ answer.table => RequiredColumns \subseteq answer.columns

====
